---- MODULE Spec2Model ----
(***************************************************************************)
(* CiviCRM MCP server: the custom-field resolver (CiviCRMClient), the      *)
(* module initialisation and the CallTool dispatcher, for the three        *)
(* generations of the server kept in the repository:                       *)
(*   "original"  src/unnamed/part_000      (1.0, no custom fields)         *)
(*   "index"     src/src/index.ts          (1.2, the built server)         *)
(*   "enhanced"  src/src/index_enhanced.ts (1.2, full entity support)      *)
(*                                                                         *)
(* Strings are sequences of one-character strings, <<"V","i">> is "Vi";    *)
(* a fixed fragment of a template literal is one element of the sequence.  *)
(* An action runs a handler from one await to the next (run to completion).*)
(***************************************************************************)
EXTENDS Integers, Sequences, FiniteSets, TLC

\* ------------------------------------------------------------------ bounds
MaxFields == 2        \* longest list of field records in a metadata response
MaxRecords == 1       \* longest list of records in an entity response

\* ------------------------------------------------------- JavaScript values
undefined == <<"undefined">>      \* a missing property / unset variable
null == <<"null">>                \* the null of `|| null`
EmptyString == <<>>

Upper == <<"A","B","C","D","E","F","G","H","I","J","K","L","M",
           "N","O","P","Q","R","S","T","U","V","W","X","Y","Z">>
Lower == <<"a","b","c","d","e","f","g","h","i","j","k","l","m",
           "n","o","p","q","r","s","t","u","v","w","x","y","z">>

\* the lower-case letter of each upper-case letter
LowerOf ==
  [ch \in {Upper[i] : i \in DOMAIN Upper} |->
     Lower[CHOOSE i \in DOMAIN Upper : Upper[i] = ch]]

\* String.prototype.toLowerCase on one character
LowerChar(ch) == IF ch \in DOMAIN LowerOf THEN LowerOf[ch] ELSE ch

\* String.prototype.toLowerCase
toLowerCase(s) == [i \in DOMAIN s |-> LowerChar(s[i])]

\* a value inside a template literal: `${v}`
Template(v) == v

\* JavaScript truthiness of a string-or-missing value
Truthy(v) == v # undefined /\ v # null /\ v # EmptyString

\* s contains t as a contiguous part
Contains(s, t) ==
  \E i \in 0..(Len(s) - Len(t)) : \A j \in 1..Len(t) : s[i + j] = t[j]

Range(s) == {s[i] : i \in DOMAIN s}

SeqsUpTo(S, n) == UNION {[1..k -> S] : k \in 0..n}

\* typed argument values of a tool call (JSON values)
Str(chars) == [t |-> "string", s |-> chars]
Num(digits) == [t |-> "number", s |-> digits]
Bool(b) == [t |-> "boolean", s |-> IF b THEN <<"true">> ELSE <<"false">>]
Undef == [t |-> "undefined", s |-> <<>>]

\* JavaScript truthiness of a typed value: if (v)
JSTruthy(v) ==
  ~ \/ v.t = "undefined"
    \/ v.t = "number" /\ v.s = <<"0">>
    \/ v.t = "string" /\ v.s = <<>>
    \/ v.t = "boolean" /\ v.s = <<"false">>

\* an object is the sequence of its entries in insertion order
Entry(k, v) == [key |-> k, value |-> v]
Keys(obj) == {obj[i].key : i \in DOMAIN obj}

\* obj[k], undefined when the key is missing
Get(obj, k) ==
  IF \E i \in DOMAIN obj : obj[i].key = k
  THEN obj[CHOOSE i \in DOMAIN obj : obj[i].key = k].value
  ELSE Undef

\* fault variant of the property assignment: a key that is there already
\* keeps its value
PutKeepFirst(obj, k, v) ==
  IF \E i \in DOMAIN obj : obj[i].key = k THEN obj
  ELSE Append(obj, [key |-> k, value |-> v])

\* obj[k] = v: an existing key keeps its position, a new key goes last
Put(obj, k, v) ==
  IF \E i \in DOMAIN obj : obj[i].key = k
  THEN [i \in DOMAIN obj |-> IF obj[i].key = k THEN Entry(k, v) ELSE obj[i]]
  ELSE Append(obj, Entry(k, v))

\* const { k1, k2, ...rest } = obj: the entries of obj whose key is not taken
RECURSIVE Rest(_, _)
Rest(obj, taken) ==
  IF obj = <<>> THEN <<>>
  ELSE IF Head(obj).key \in taken THEN Rest(Tail(obj), taken)
       ELSE <<Head(obj)>> \o Rest(Tail(obj), taken)

\* ------------------------------------------------- the remote (CiviCRM API)
\* one CustomField record of the metadata response; a record of the remote
\* may lack its short name or its label
Field(id, name, label, group, extends) ==
  [id |-> id, name |-> name, label |-> label, group |-> group,
   extends |-> extends, data_type |-> <<"String">>, html_type |-> <<"Text">>]

FieldRecords ==
  { Field(<<"1">>, <<"i","a">>, <<"V","I">>, <<"G">>, <<"Contact">>),
    Field(<<"2">>, <<"s","t">>, <<"v","i">>, <<"H">>, <<"Activity">>),
    Field(<<"3">>, <<"V","i">>, <<"E","m","a","i","l">>, <<"G">>, <<"Contribution">>),
    Field(<<"4">>, <<"i","a">>, <<"I","a">>, <<"G">>, <<"Activity">>),
    Field(<<"5">>, undefined, <<"z">>, <<"H">>, <<"Contact">>),
    Field(<<"6">>, <<"z">>, undefined, <<"H">>, <<"Contact">>) }

\* response.data of a successful request: an object with a values list
\* ("values"), an object without one ("novalues") or a bare array ("array");
\* id and error are the object's own top-level properties
Data(shape, values, id, error) ==
  [shape |-> shape, values |-> values, id |-> id, error |-> error]

NoData == Data("none", <<>>, undefined, undefined)

MetadataResponses ==
  {Data("values", v, undefined, undefined) :
      v \in SeqsUpTo(FieldRecords, MaxFields)}
    \cup {Data("novalues", <<>>, undefined, undefined)}

\* one record of an entity response: its id and its dotted (custom) keys
Rec(id, dotted) == [id |-> id, dotted |-> dotted]

EntityRecords ==
  { Rec(<<"5">>, <<>>),
    Rec(undefined, <<Entry(<<"G",".","i","a">>, <<"x">>)>>) }

EntityResponses ==
  {Data("values", v, undefined, undefined) :
      v \in SeqsUpTo(EntityRecords, MaxRecords)}
    \cup {Data("array", v, undefined, undefined) :
      v \in SeqsUpTo(EntityRecords, MaxRecords)}
    \cup { Data("novalues", <<>>, <<"9">>, undefined),
           Data("novalues", <<>>, undefined, undefined),
           Data("novalues", <<>>, undefined, <<"denied">>) }

\* a failed request as axios reports it: error.response?.data?.error_message
\* and error.message
Failure(error_message, message) ==
  [error_message |-> error_message, message |-> message]

RemoteFailures ==
  { Failure(<<"DB Error">>, <<"Request failed with status code 500">>),
    Failure(undefined, <<"timeout of 30000ms exceeded">>),
    Failure(EmptyString, <<"Network Error">>) }

\* the message of the Error that apiV4 throws
apiV4Error(e) ==
  <<"CiviCRM API v4 Error: ">> \o
    (IF Truthy(e.error_message) THEN e.error_message ELSE e.message)

\* ------------------------------------------------ the custom-field resolver
\* customFieldMappings: Map<string, string>, a function on its set of keys
EmptyMap == <<>>

MapSet(m, k, v) == [x \in (DOMAIN m) \cup {k} |-> IF x = k THEN v ELSE m[x]]

\* customFieldsCache: Map<string, any>, the sequence of its entries in
\* insertion order; set on an existing key keeps the key's position
CacheKeys(cache) == {cache[i].apiName : i \in DOMAIN cache}

\* fault variant of the cache write: the entry is appended whether or not
\* its key is there already (a list in place of the Map)
CacheSetAppend(cache, entry) == Append(cache, entry)

CacheSet(cache, entry) ==
  IF entry.apiName \in CacheKeys(cache)
  THEN [i \in DOMAIN cache |->
          IF cache[i].apiName = entry.apiName THEN entry ELSE cache[i]]
  ELSE Append(cache, entry)

\* fault variant of the loop body: the short-name alias (the second
\* customFieldMappings.set) is left out
ProcessFieldLabelOnly(field, st) ==
  LET apiFieldName == Template(field.group) \o <<".">> \o Template(field.name)
      entry == [apiName |-> apiFieldName, id |-> field.id, name |-> field.name,
                label |-> field.label, group |-> field.group,
                extends |-> field.extends, dataType |-> field.data_type,
                htmlType |-> field.html_type]
  IN IF field.label = undefined \/ field.name = undefined
     THEN [st EXCEPT !.threw = TRUE]
     ELSE [maps |-> MapSet(st.maps, toLowerCase(field.label), apiFieldName),
           cache |-> CacheSet(st.cache, entry),
           threw |-> FALSE]

\* fault variant of the loop body: an alias that is already in the map is
\* kept (first-loaded-wins)
ProcessFieldFirstWins(field, st) ==
  LET apiFieldName == Template(field.group) \o <<".">> \o Template(field.name)
      entry == [apiName |-> apiFieldName, id |-> field.id, name |-> field.name,
                label |-> field.label, group |-> field.group,
                extends |-> field.extends, dataType |-> field.data_type,
                htmlType |-> field.html_type]
      keep(m, k) == IF k \in DOMAIN m THEN m ELSE MapSet(m, k, apiFieldName)
  IN IF field.label = undefined
     THEN [st EXCEPT !.threw = TRUE]
     ELSE LET m1 == keep(st.maps, toLowerCase(field.label))
          IN IF field.name = undefined
             THEN [st EXCEPT !.maps = m1, !.threw = TRUE]
             ELSE [maps |-> keep(m1, toLowerCase(field.name)),
                   cache |-> CacheSet(st.cache, entry),
                   threw |-> FALSE]

\* the body of the population loop for one field record; threw: a
\* toLowerCase on a missing label or short name raised a TypeError
ProcessField(field, st) ==
  LET apiFieldName == Template(field.group) \o <<".">> \o Template(field.name)
      entry == [apiName |-> apiFieldName, id |-> field.id, name |-> field.name,
                label |-> field.label, group |-> field.group,
                extends |-> field.extends, dataType |-> field.data_type,
                htmlType |-> field.html_type]
  IN IF field.label = undefined
     THEN [st EXCEPT !.threw = TRUE]
     ELSE LET m1 == MapSet(st.maps, toLowerCase(field.label), apiFieldName)
          IN IF field.name = undefined
             THEN [st EXCEPT !.maps = m1, !.threw = TRUE]
             ELSE [maps |-> MapSet(m1, toLowerCase(field.name), apiFieldName),
                   cache |-> CacheSet(st.cache, entry),
                   threw |-> FALSE]

\* for (const field of customFields) { ... }: stops at the first throw
RECURSIVE LoadLoop(_, _)
LoadLoop(fields, st) ==
  IF fields = <<>> \/ st.threw THEN st
  ELSE LoadLoop(Tail(fields), ProcessField(Head(fields), st))

\* loadCustomFields after a successful metadata request
LoadFromResponse(data, maps, cache) ==
  LoadLoop(IF data.shape = "values" THEN data.values ELSE <<>>,
           [maps |-> maps, cache |-> cache, threw |-> FALSE])

\* fault variant of getCustomFieldApiName: the name is looked up as it was
\* given, without toLowerCase
getCustomFieldApiNameExact(maps, humanName) ==
  IF humanName \in DOMAIN maps /\ Truthy(maps[humanName])
  THEN maps[humanName] ELSE null

\* getCustomFieldApiName(humanName)
getCustomFieldApiName(maps, humanName) ==
  LET k == toLowerCase(humanName)
  IN IF k \in DOMAIN maps /\ Truthy(maps[k]) THEN maps[k] ELSE null

\* fault variant of getCustomFieldsForEntity: the test on metadata.extends is
\* left out
getCustomFieldsForEntityUnfiltered(cache, entityType) == cache

\* getCustomFieldsForEntity(entityType)
getCustomFieldsForEntity(cache, entityType) ==
  SelectSeq(cache, LAMBDA e : e.extends = entityType)

\* ------------------------------------------------------ requests and texts
K(name) == <<name>>     \* a property name that has no upper-case letter

\* v with the destructuring default d: const { k = d } = args
Dflt(v, d) == IF v.t = "undefined" THEN d ELSE v

\* the arguments of a tool call: the nested custom_fields object (if any) and
\* the other properties
Args(std, present, entries) ==
  [std |-> std, custom_fields |-> [present |-> present, entries |-> entries]]

NoArgs == Args(<<>>, FALSE, <<>>)

\* the params object of an apiV4 call
Req(entity, action, select, where, values, limit) ==
  [entity |-> entity, action |-> action, select |-> select, where |-> where,
   values |-> values, limit |-> limit]

NoReq == Req("none", "none", <<>>, <<>>, <<>>, Undef)

\* the metadata query of loadCustomFields
MetadataRequest ==
  Req("CustomField", "get",
      <<K("id"), K("name"), K("label"), K("custom_group_id.name"),
        K("custom_group_id.extends"), K("data_type"), K("html_type")>>,
      <<[f |-> "is_active", op |-> "=", v |-> Bool(TRUE)]>>,
      <<>>, Num(<<"0">>))

\* what the host receives: a text result or an McpError
Text(chunks) == [kind |-> "text", code |-> "none", text |-> chunks]
McpError(code, message) == [kind |-> "error", code |-> code, text |-> message]
NoOutcome == [kind |-> "none", code |-> "none", text |-> <<>>]

\* new Error(message), as apiV4 throws it
Error(message) == [kind |-> "error", code |-> "Error", text |-> message]

\* fault variant of the top-level catch: the message of the original error
\* is dropped
TopLevelCatchGeneric(error) ==
  McpError("InternalError", <<"Tool execution failed">>)

\* the top-level catch of the CallTool handler: whatever was thrown in the
\* try is thrown again as an InternalError with the message of the original
TopLevelCatch(error) ==
  McpError("InternalError", <<"Tool execution failed: ">> \o error.text)

Digits == <<"0","1","2","3","4","5","6","7","8","9">>
NumStr(n) == <<Digits[n + 1]>>

\* `${v || 'N/A'}` for a string-or-missing property
OrNA(v) == IF Truthy(v) THEN v ELSE <<"N/A">>

RECURSIVE Flatten(_)
Flatten(ss) == IF ss = <<>> THEN <<>> ELSE Head(ss) \o Flatten(Tail(ss))

\* the entity types that have a case in the switch of formatSingleEntity
SwitchTypes(gen) ==
  IF gen = "index"
  THEN {"contact", "activity", "contribution", "event", "membership", "case",
        "campaign", "group", "relationship"}
  ELSE {"contact", "address", "email", "phone", "group", "group_contact",
        "relationship", "membership_type", "membership_status"}

\* formatSingleEntity: the ID line; the fixed lines of the entity type (the
\* records of the model carry none of those properties: one fragment) or, in
\* the default case, every property but id; then the dotted keys
formatSingleEntity(gen, item, entityType) ==
  <<"ID: ">> \o OrNA(item.id) \o <<"\n">> \o
  (IF entityType \in SwitchTypes(gen)
   THEN <<entityType, " lines\n">>
   ELSE Flatten([i \in DOMAIN item.dotted |->
                  item.dotted[i].key \o <<": ">> \o item.dotted[i].value
                    \o <<"\n">>])) \o
  Flatten([i \in DOMAIN item.dotted |->
            item.dotted[i].key \o <<": ">> \o OrNA(item.dotted[i].value)
              \o <<"\n">>])

\* formatResults(result, entityType). values = result.values || result is
\* the list of an object that has one, the object itself if it has none, and
\* for a bare array the function Array.prototype.values: one item without
\* an id and without properties
formatResults(gen, result, entityType) ==
  IF Truthy(result.error) THEN <<"Error: ">> \o result.error
  ELSE LET items == CASE result.shape = "values" -> result.values
                      [] result.shape = "array" -> <<Rec(undefined, <<>>)>>
                      [] OTHER -> <<Rec(result.id, <<>>)>>
           count == Len(items)
       IN IF count = 0
          THEN <<"Found 0 ", entityType, "(s):\n\n">>
          ELSE <<"Found ">> \o NumStr(count) \o <<" ", entityType, "(s):\n\n">>
               \o Flatten([i \in DOMAIN items |->
                            formatSingleEntity(gen, items[i], entityType)
                              \o <<"\n">>])

\* result.values || [] of an object
ValuesOrEmpty(result) ==
  IF result.shape = "values" THEN result.values ELSE <<>>

\* result.values?.[0]?.id || result.id, inside a template literal
CreatedId(result) ==
  IF result.shape = "values" /\ result.values # <<>>
       /\ Truthy(result.values[1].id)
  THEN result.values[1].id
  ELSE Template(result.id)

\* ------------------------------------------------- the handlers' tables
Generations == {"original", "index", "enhanced"}

\* the cases of the switch in part_000
ToolsOriginal ==
  { "get_contacts", "create_contact", "update_contact", "get_activities",
    "create_activity", "get_contributions", "create_contribution",
    "get_events", "get_memberships", "system_info" }

\* the cases of the switch in index.ts
ToolsIndex ==
  { "get_contacts", "create_contact", "update_contact", "list_custom_fields",
    "get_activities", "create_activity", "get_contributions",
    "create_contribution", "get_events", "get_memberships", "get_groups",
    "get_tags", "get_relationships", "get_cases", "get_campaigns",
    "get_option_values", "list_option_groups", "get_reports", "system_info" }

\* the cases of the switch in index_enhanced.ts whose tool has no
\* implementation: one shared body that returns a fixed text
PlaceholderTools ==
  { "get_activities", "create_activity", "get_contributions",
    "create_contribution", "get_events", "get_memberships", "get_cases",
    "get_campaigns", "get_reports", "system_info" }

\* the cases of the switch in index_enhanced.ts that the model follows; the
\* other cases of that file (the address, email, phone, website, group
\* contact, entity tag, type and organisational tools) are not dispatched
ToolsEnhanced ==
  { "get_contacts", "create_contact", "update_contact", "list_custom_fields",
    "get_organizer_contacts", "get_groups", "get_tags", "get_relationships",
    "get_option_values", "list_option_groups" } \cup PlaceholderTools

\* the registered operation names of the running server
Registered(gen) ==
  CASE gen = "original" -> ToolsOriginal
    [] gen = "index" -> ToolsIndex
    [] OTHER -> ToolsEnhanced

\* the shape of the handler of a tool in a generation
Kind(gen, name) ==
  CASE name \notin Registered(gen) -> "unknown"
    [] gen = "original" /\ name = "system_info" -> "system_info"
    [] gen = "original" -> "array"
    [] gen = "enhanced" /\ name \in PlaceholderTools -> "placeholder"
    [] gen = "enhanced" /\ name \in {"get_contacts", "get_organizer_contacts"}
         -> "client_get"
    [] gen = "enhanced" /\ name = "create_contact" -> "client_create"
    [] gen = "enhanced" /\ name = "update_contact" -> "flat_write"
    [] name = "list_custom_fields" -> "list_custom_fields"
    [] name \in {"get_contacts", "get_activities", "get_contributions"}
         -> "custom_get"
    [] name = "create_contact" -> "create_contact"
    [] name \in {"update_contact", "create_activity", "create_contribution"}
         -> "custom_write"
    [] name \in {"get_cases", "get_campaigns", "get_reports"} -> "guarded"
    [] name = "system_info" -> "system_info"
    [] OTHER -> "plain"

\* the entity of the handler's apiV4 call
EntityOf(name) ==
  CASE name \in {"get_contacts", "create_contact", "update_contact",
                 "get_organizer_contacts"} -> "Contact"
    [] name \in {"get_activities", "create_activity"} -> "Activity"
    [] name \in {"get_contributions", "create_contribution"} -> "Contribution"
    [] name = "get_events" -> "Event"
    [] name = "get_memberships" -> "Membership"
    [] name = "get_groups" -> "Group"
    [] name = "get_tags" -> "Tag"
    [] name = "get_relationships" -> "Relationship"
    [] name = "get_cases" -> "Case"
    [] name = "get_campaigns" -> "Campaign"
    [] name = "get_option_values" -> "OptionValue"
    [] name = "list_option_groups" -> "OptionGroup"
    [] name = "get_reports" -> "ReportTemplate"
    [] OTHER -> "none"

\* the entityType argument of formatResults, the noun of the other texts
FormatTypeOf(name) ==
  CASE name \in {"get_contacts", "get_organizer_contacts"} -> "contact"
    [] name = "get_activities" -> "activity"
    [] name = "get_contributions" -> "contribution"
    [] name = "get_events" -> "event"
    [] name = "get_memberships" -> "membership"
    [] name = "get_groups" -> "group"
    [] name = "get_relationships" -> "relationship"
    [] name = "get_cases" -> "case"
    [] name = "get_campaigns" -> "campaign"
    [] name = "get_tags" -> "tag"
    [] name = "get_option_values" -> "option value"
    [] name = "list_option_groups" -> "option group"
    [] name = "get_reports" -> "report"
    [] name = "create_contact" -> "contact"
    [] name = "create_activity" -> "activity"
    [] name = "create_contribution" -> "contribution"
    [] OTHER -> "none"

\* the fixed select list of the handler
FixedSelect(gen, name) ==
  CASE name \in {"get_contacts", "get_organizer_contacts"} ->
         <<K("id"), K("display_name"), K("first_name"), K("last_name"),
           K("organization_name"), K("contact_type"),
           K("email_primary.email"), K("phone_primary.phone")>>
    [] gen = "original" /\ name = "get_activities" ->
         <<K("id"), K("subject"), K("details"), K("activity_type_id:name"),
           K("status_id:name"), K("activity_date_time"),
           K("source_contact_id.display_name")>>
    [] gen = "original" /\ name = "get_contributions" ->
         <<K("id"), K("contact_id.display_name"), K("total_amount"),
           K("financial_type_id:name"), K("contribution_status_id:name"),
           K("receive_date"), K("source")>>
    [] gen = "original" /\ name = "get_events" ->
         <<K("id"), K("title"), K("event_type_id:name"), K("start_date"),
           K("end_date"), K("is_active"), K("max_participants")>>
    [] gen = "original" /\ name = "get_memberships" ->
         <<K("id"), K("contact_id.display_name"), K("membership_type_id:name"),
           K("status_id:name"), K("start_date"), K("end_date")>>
    [] name = "get_activities" ->
         <<K("id"), K("subject"), K("activity_type_id"), K("status_id"),
           K("activity_date_time"), K("source_contact_id"), K("details")>>
    [] name = "get_contributions" ->
         <<K("id"), K("contact_id"), K("total_amount"), K("financial_type_id"),
           K("contribution_status_id"), K("receive_date"), K("source")>>
    [] name = "get_events" ->
         <<K("id"), K("title"), K("event_type_id"), K("start_date"),
           K("end_date"), K("max_participants"), K("is_active"),
           K("is_public")>>
    [] name = "get_memberships" ->
         <<K("id"), K("contact_id"), K("membership_type_id"), K("status_id"),
           K("start_date"), K("end_date"), K("source")>>
    [] name = "get_groups" ->
         <<K("id"), K("name"), K("title"), K("description"), K("group_type"),
           K("visibility"), K("is_active")>>
    [] name = "get_tags" ->
         <<K("id"), K("name"), K("description"), K("used_for"),
           K("is_selectable"), K("color")>>
    [] name = "get_relationships" ->
         <<K("id"), K("contact_id_a"), K("contact_id_b"),
           K("relationship_type_id"), K("start_date"), K("end_date"),
           K("is_active")>>
    [] name = "get_cases" ->
         <<K("id"), K("contact_id"), K("case_type_id"), K("status_id"),
           K("start_date"), K("end_date"), K("subject")>>
    [] name = "get_campaigns" ->
         <<K("id"), K("name"), K("title"), K("campaign_type_id"),
           K("status_id"), K("start_date"), K("end_date"), K("goal_revenue")>>
    [] name = "get_option_values" ->
         <<K("id"), K("option_group_id"), K("label"), K("value"), K("name"),
           K("description"), K("weight"), K("is_active")>>
    [] name = "list_option_groups" ->
         <<K("id"), K("name"), K("title"), K("description"), K("data_type"),
           K("is_active")>>
    [] name = "get_reports" ->
         <<K("id"), K("label"), K("description"), K("class_name"),
           K("report_url"), K("component"), K("is_active")>>
    [] OTHER -> <<>>

\* one `if (...) where.push([...])` line: the argument, the field, the
\* operator, the test ("truthy": if (arg), "defined": if (arg !== undefined))
\* and the destructuring default of the argument
W(arg, f, op, test, dflt) ==
  [arg |-> arg, f |-> f, op |-> op, test |-> test, dflt |-> dflt]

\* the where.push lines of the handler in index.ts and index_enhanced.ts, in
\* the order of the code
WhereRowsIndex(name) ==
  CASE name \in {"get_contacts", "get_organizer_contacts"} ->
         <<W("search", "OR display_name|email_primary.email", "LIKE", "truthy", Undef),
           W("contact_type", "contact_type", "=", "truthy", Undef),
           W("contact_id", "id", "=", "truthy", Undef)>>
    [] name = "get_activities" ->
         <<W("contact_id", "source_contact_id", "=", "truthy", Undef),
           W("activity_type", "activity_type_id.name", "=", "truthy", Undef),
           W("status", "status_id.name", "=", "truthy", Undef)>>
    [] name = "get_contributions" ->
         <<W("contact_id", "contact_id", "=", "truthy", Undef),
           W("contribution_status", "contribution_status_id.name", "=", "truthy", Undef),
           W("financial_type", "financial_type_id.name", "=", "truthy", Undef)>>
    [] name = "get_events" ->
         <<W("is_active", "is_active", "=", "defined", Bool(TRUE)),
           W("event_type", "event_type_id.name", "=", "truthy", Undef)>>
    [] name = "get_memberships" ->
         <<W("contact_id", "contact_id", "=", "truthy", Undef),
           W("membership_type_id", "membership_type_id", "=", "truthy", Undef),
           W("status_id", "status_id", "=", "truthy", Undef)>>
    [] name = "get_groups" ->
         <<W("is_active", "is_active", "=", "defined", Bool(TRUE)),
           W("group_type", "group_type", "LIKE", "truthy", Undef)>>
    [] name = "get_tags" ->
         <<W("used_for", "used_for", "LIKE", "truthy", Undef),
           W("is_selectable", "is_selectable", "=", "defined", Undef)>>
    [] name = "get_relationships" ->
         <<W("contact_id_a", "contact_id_a", "=", "truthy", Undef),
           W("contact_id_b", "contact_id_b", "=", "truthy", Undef),
           W("relationship_type_id", "relationship_type_id", "=", "truthy", Undef),
           W("is_active", "is_active", "=", "defined", Bool(TRUE))>>
    [] name = "get_cases" ->
         <<W("contact_id", "contact_id", "=", "truthy", Undef),
           W("case_type_id", "case_type_id", "=", "truthy", Undef),
           W("status_id", "status_id", "=", "truthy", Undef),
           W("is_deleted", "is_deleted", "=", "defined", Bool(FALSE))>>
    [] name = "get_campaigns" ->
         <<W("campaign_type_id", "campaign_type_id", "=", "truthy", Undef),
           W("status_id", "status_id", "=", "truthy", Undef),
           W("is_active", "is_active", "=", "defined", Bool(TRUE))>>
    [] name = "get_option_values" ->
         <<W("option_group_id", "option_group_id", "=", "truthy", Undef),
           W("option_group_name", "option_group_id.name", "=", "truthy", Undef),
           W("is_active", "is_active", "=", "defined", Bool(TRUE))>>
    [] name = "list_option_groups" ->
         <<W("is_active", "is_active", "=", "defined", Bool(TRUE))>>
    [] name = "get_reports" ->
         <<W("component", "component", "=", "truthy", Undef),
           W("is_active", "is_active", "=", "defined", Bool(TRUE))>>
    [] OTHER -> <<>>

\* the where.push lines of the handler in part_000, in the order of the code
WhereRowsOriginal(name) ==
  CASE name = "get_contacts" ->
         <<W("search", "OR display_name|email_primary.email", "LIKE", "truthy", Undef),
           W("contact_type", "contact_type", "=", "truthy", Undef),
           W("contact_id", "id", "=", "truthy", Undef)>>
    [] name = "get_activities" ->
         <<W("contact_id", "source_contact_id", "=", "truthy", Undef),
           W("activity_type", "activity_type_id:name", "=", "truthy", Undef),
           W("status", "status_id:name", "=", "truthy", Undef)>>
    [] name = "get_contributions" ->
         <<W("contact_id", "contact_id", "=", "truthy", Undef),
           W("contribution_status", "contribution_status_id:name", "=", "truthy", Undef),
           W("financial_type", "financial_type_id:name", "=", "truthy", Undef)>>
    [] name = "get_events" ->
         <<W("event_type", "event_type_id:name", "=", "truthy", Undef),
           W("is_active", "is_active", "=", "defined", Bool(TRUE))>>
    [] name = "get_memberships" ->
         <<W("contact_id", "contact_id", "=", "truthy", Undef),
           W("membership_type_id", "membership_type_id", "=", "truthy", Undef),
           W("status_id", "status_id", "=", "truthy", Undef)>>
    [] OTHER -> <<>>

WhereRows(gen, name) ==
  IF gen = "original" THEN WhereRowsOriginal(name) ELSE WhereRowsIndex(name)

\* `%${v}%`
Like(v) == [t |-> "string", s |-> <<"%">> \o v.s \o <<"%">>]

\* let where = []; if (...) where.push(...); ...
RECURSIVE BuildWhere(_, _)
BuildWhere(rows, std) ==
  IF rows = <<>> THEN <<>>
  ELSE LET r == Head(rows)
           v == Dflt(Get(std, K(r.arg)), r.dflt)
           pushed == IF r.test = "truthy" THEN JSTruthy(v) ELSE v.t # "undefined"
           pred == [f |-> r.f, op |-> r.op,
                    v |-> IF r.op = "LIKE" THEN Like(v) ELSE v]
       IN (IF pushed THEN <<pred>> ELSE <<>>) \o BuildWhere(Tail(rows), std)

\* the entity a get handler asks custom fields for
ExtendsOf(name) == <<EntityOf(name)>>

\* if (include_custom_fields), with the default true; get_organizer_contacts
\* passes false
IncludeCustomFields(name, std) ==
  /\ name # "get_organizer_contacts"
  /\ JSTruthy(Dflt(Get(std, K("include_custom_fields")), Bool(TRUE)))

\* const { limit = 25 } = args; get_organizer_contacts: limit = 100
LimitOf(name, std) ==
  Dflt(Get(std, K("limit")),
       IF name = "get_organizer_contacts" THEN Num(<<"1","0","0">>)
       ELSE Num(<<"2","5">>))

\* fault variant of the select list: the API name of every cached field is
\* pushed, whatever entity it extends
CustomSelectAll(cache, entityType) == [i \in DOMAIN cache |-> cache[i].apiName]

\* for (const field of getCustomFieldsForEntity(...)) select.push(field.apiName)
CustomSelect(cache, entityType) ==
  LET fields == getCustomFieldsForEntity(cache, entityType)
  IN [i \in DOMAIN fields |-> fields[i].apiName]

\* for (const [key, value] of Object.entries(...)) { ... }: a key that
\* resolves goes under its API name, another under itself
RECURSIVE ProcessCustomFields(_, _, _)
ProcessCustomFields(maps, processedData, entries) ==
  IF entries = <<>> THEN processedData
  ELSE LET e == Head(entries)
           customFieldApiName == getCustomFieldApiName(maps, e.key)
           k == IF Truthy(customFieldApiName) THEN customFieldApiName ELSE e.key
       IN ProcessCustomFields(maps, Put(processedData, k, e.value), Tail(entries))

\* { ...obj, ...entries }
RECURSIVE Spread(_, _)
Spread(obj, entries) ==
  IF entries = <<>> THEN obj
  ELSE Spread(Put(obj, Head(entries).key, Head(entries).value), Tail(entries))

\* ...(custom_fields || {})
CustomEntries(args) ==
  IF args.custom_fields.present THEN args.custom_fields.entries ELSE <<>>

\* createContactWithCustomFields: the standardFields object after the loop,
\* the entries of contactData whose key does not resolve
SplitStandardFields(maps, contactData) ==
  SelectSeq(contactData,
            LAMBDA e : ~Truthy(getCustomFieldApiName(maps, e.key)))

\* fault variant of the loop of createContactWithCustomFields: a key that
\* resolves goes to customFields under the key itself
SplitCustomFieldsUnresolved(maps, contactData) ==
  SelectSeq(contactData,
            LAMBDA e : Truthy(getCustomFieldApiName(maps, e.key)))

\* createContactWithCustomFields: the customFields object after the loop,
\* the entries whose key resolves, under their API names
SplitCustomFields(maps, contactData) ==
  ProcessCustomFields(
    maps, <<>>,
    SelectSeq(contactData,
              LAMBDA e : Truthy(getCustomFieldApiName(maps, e.key))))

\* createContactWithCustomFields: const mergedData =
\* { ...standardFields, ...customFields }
SplitAndMerge(maps, contactData) ==
  Spread(SplitStandardFields(maps, contactData),
         SplitCustomFields(maps, contactData))

\* the values object of the create and update handlers
ProcessedData(gen, name, args, maps) ==
  LET rest == IF name = "update_contact"
              THEN Rest(args.std, {K("contact_id")})
              ELSE args.std
      contact_id == Get(args.std, K("contact_id"))
  IN CASE gen = "original" /\ name = "create_activity" ->
            Put(rest, K("source_contact_id"),
                IF JSTruthy(contact_id) THEN contact_id ELSE Num(<<"1">>))
       [] gen = "original" -> rest
       [] gen = "enhanced" /\ name = "create_contact" ->
            SplitAndMerge(maps, Spread(rest, CustomEntries(args)))
       [] gen = "enhanced" ->
            ProcessCustomFields(maps, <<>>, Spread(rest, CustomEntries(args)))
       [] OTHER -> ProcessCustomFields(maps, rest, CustomEntries(args))

\* the number of getCustomFieldApiName calls the handler makes
ResolveCount(gen, name, args) ==
  LET rest == IF name = "update_contact"
              THEN Rest(args.std, {K("contact_id")})
              ELSE args.std
  IN CASE Kind(gen, name) \in {"client_create", "flat_write"} ->
            Len(Spread(rest, CustomEntries(args)))
       [] Kind(gen, name) \in {"create_contact", "custom_write"} ->
            Len(CustomEntries(args))
       [] OTHER -> 0

\* the params of the handler's apiV4 call, built after the load guard (if the
\* handler has one) from the resolver as it is then
EntityRequest(gen, name, args, maps, cache) ==
  CASE name = "update_contact" ->
         Req("Contact", "update", <<>>,
             <<[f |-> "id", op |-> "=", v |-> Get(args.std, K("contact_id"))]>>,
             ProcessedData(gen, name, args, maps), Undef)
    [] name \in {"create_contact", "create_activity", "create_contribution"} ->
         Req(EntityOf(name), "create", <<>>, <<>>,
             ProcessedData(gen, name, args, maps), Undef)
    [] Kind(gen, name) \in {"custom_get", "client_get"} ->
         Req(EntityOf(name), "get",
             FixedSelect(gen, name) \o
               (IF IncludeCustomFields(name, args.std)
                THEN CustomSelect(cache, ExtendsOf(name)) ELSE <<>>),
             BuildWhere(WhereRows(gen, name),
                        IF name = "get_organizer_contacts"
                        THEN <<Entry(K("search"), Str(<<"@acorncanada.org">>))>>
                        ELSE args.std),
             <<>>, LimitOf(name, args.std))
    [] OTHER ->
         Req(EntityOf(name), "get", FixedSelect(gen, name),
             BuildWhere(WhereRows(gen, name), args.std), <<>>,
             LimitOf(name, args.std))

\* `${v}` for a typed argument value
TemplateV(v) == IF v.t = "undefined" THEN undefined ELSE v.s

\* items.map(block).join('\n')
RECURSIVE JoinLines(_)
JoinLines(blocks) ==
  IF blocks = <<>> THEN <<>>
  ELSE IF Len(blocks) = 1 THEN Head(blocks)
       ELSE Head(blocks) \o <<"\n">> \o JoinLines(Tail(blocks))

\* what a handler's code after its await produced: a text to return or an
\* error thrown
Returned(chunks) == [threw |-> FALSE, text |-> chunks]
Thrown(message) == [threw |-> TRUE, text |-> message]

\* `Found ${items.length} <noun>(s):\n\n` + items.map(...).join('\n')
FoundText(items, noun) ==
  <<"Found ">> \o NumStr(Len(items)) \o
  (IF noun = "activity" THEN <<" activit(ies):\n\n">>
   ELSE <<" ", noun, "(s):\n\n">>) \o
  JoinLines([i \in DOMAIN items |->
              <<"ID: ">> \o Template(items[i].id) \o <<"\n", noun, " lines\n">>])

\* get_tags, get_option_values, list_option_groups and get_reports of
\* index.ts: items = result.values || []; of a bare array that is the
\* function Array.prototype.values, which has no map
FoundList(result, noun, variable) ==
  IF result.shape = "array"
  THEN Thrown(<<variable, ".map is not a function">>)
  ELSE Returned(FoundText(ValuesOrEmpty(result), noun))

\* the get handlers of part_000: result.length and result.map of
\* response.data itself
OriginalList(result, noun) ==
  IF result.shape = "array"
  THEN Returned(FoundText(result.values, noun))
  ELSE Thrown(<<"result.map is not a function">>)

\* `... with ID: ${result[0].id}` of part_000
OriginalCreated(result, noun) ==
  IF result.shape = "array" /\ result.values # <<>>
  THEN Returned(<<"Successfully created ", noun, " with ID: ">>
                  \o Template(result.values[1].id))
  ELSE Thrown(<<"Cannot read properties of undefined (reading 'id')">>)

\* const contacts = result.values || result; const contactId =
\* Array.isArray(contacts) ? contacts[0]?.id : contacts?.id, in a template
EnhancedCreatedId(result) ==
  CASE result.shape = "values" ->
         IF result.values # <<>> THEN Template(result.values[1].id)
         ELSE undefined
    [] result.shape = "array" -> undefined
    [] OTHER -> Template(result.id)

NounOf(name) ==
  CASE name = "get_tags" -> "tag"
    [] name = "get_option_values" -> "option value"
    [] name = "list_option_groups" -> "option group"
    [] name = "get_reports" -> "report"
    [] OTHER -> FormatTypeOf(name)

VariableOf(name) ==
  CASE name = "get_tags" -> "tags"
    [] name = "get_option_values" -> "optionValues"
    [] name = "list_option_groups" -> "optionGroups"
    [] OTHER -> "reports"

\* the text of list_custom_fields. In index_enhanced.ts the `||` applies to
\* the whole concatenation, which is never empty
ListCustomFieldsText(gen, cache, std) ==
  LET entity_type == Dflt(Get(std, K("entity_type")), Str(<<"Contact">>))
      customFields == getCustomFieldsForEntity(cache, entity_type.s)
      list == <<"Custom fields for ">> \o entity_type.s \o <<":\n\n">> \o
              JoinLines([i \in DOMAIN customFields |->
                <<"Label: ">> \o Template(customFields[i].label) \o
                <<"\nField Name: ">> \o Template(customFields[i].name) \o
                <<"\nAPI Name: ">> \o customFields[i].apiName \o
                <<"\nData Type: ">> \o Template(customFields[i].dataType) \o
                <<"\nGroup: ">> \o Template(customFields[i].group) \o <<"\n">>])
  IN IF gen = "enhanced" \/ Len(customFields) > 0 THEN list
     ELSE <<"No custom fields found for ">> \o entity_type.s

\* the text of the placeholder cases of index_enhanced.ts
PlaceholderText(name) ==
  <<name, " tool is available with full functionality. Implementation follows the same pattern as the enhanced contact and organizational methods.">>

\* the handler's code after its apiV4 call returned response.data
HandlerResult(gen, name, args, result) ==
  CASE name = "update_contact" ->
         Returned(<<"Successfully updated contact ID: ">> \o
                    TemplateV(Get(args.std, K("contact_id"))))
    [] gen = "original" /\ name \in {"create_contact", "create_activity",
                                      "create_contribution"} ->
         OriginalCreated(result, FormatTypeOf(name))
    [] gen = "original" -> OriginalList(result, NounOf(name))
    [] gen = "enhanced" /\ name = "create_contact" ->
         Returned(<<"Successfully created contact with ID: ">>
                    \o EnhancedCreatedId(result))
    [] gen = "enhanced" /\ name = "get_contacts" ->
         Returned(formatResults(gen,
                    Data("values", ValuesOrEmpty(result), undefined, undefined),
                    "contact"))
    [] gen = "enhanced" /\ name = "get_organizer_contacts" ->
         Returned(<<"ORGANIZER CONTACTS (with @acorncanada.org emails):\n\n">>
                  \o formatResults(gen,
                       Data("values", ValuesOrEmpty(result), undefined,
                            undefined),
                       "contact"))
    [] name \in {"get_tags", "get_option_values", "list_option_groups",
                 "get_reports"} ->
         FoundList(result, NounOf(name), VariableOf(name))
    [] name \in {"create_contact", "create_activity", "create_contribution"} ->
         Returned(<<"Successfully created ", FormatTypeOf(name), " with ID: ">>
                    \o CreatedId(result))
    [] OTHER -> Returned(formatResults(gen, result, FormatTypeOf(name)))

\* the text of the local catch of a guarded handler
GuardedText(gen, name, message) ==
  CASE name = "get_cases" ->
         <<"Error accessing cases (CiviCase may not be enabled): ">> \o message
    [] name = "get_campaigns" ->
         <<"Error accessing campaigns (CiviCampaign may not be enabled): ">>
           \o message
    [] name = "get_reports" -> <<"Error accessing reports: ">> \o message
    [] gen = "original" ->
         <<"CiviCRM System Information:\n\n", "Connection: Established\n",
           "API: Available\n",
           "Note: Some system details require additional permissions\n">>
    [] OTHER -> <<"Error retrieving system information: ">> \o message

\* the output of system_info from the two responses
SystemInfoText(gen, systemCheck, systemInfo) ==
  IF gen = "original"
  THEN <<"CiviCRM System Information:\n\n", "Version: undefined\n",
         "Database: Connected\n", "API v4: Available\n", "Status: ">> \o
       (IF systemCheck.shape = "array"
        THEN IF Len(systemCheck.values) = 0
             THEN <<"All systems operational">>
             ELSE NumStr(Len(systemCheck.values)) \o <<" issue(s) detected">>
        ELSE <<"undefined issue(s) detected">>) \o <<"\n">>
  ELSE <<"=== CIVICRM SYSTEM INFORMATION ===\n\n">> \o
       (IF systemInfo.shape = "values" /\ Len(systemInfo.values) > 0
        THEN <<"CiviCRM Version: Unknown\n", "Database Version: Unknown\n",
               "UF Version: Unknown\n\n">>
        ELSE <<>>) \o
       (IF systemCheck.shape = "values" /\ Len(systemCheck.values) > 0
        THEN <<"SYSTEM STATUS CHECKS:\n">> \o
             Flatten([i \in DOMAIN systemCheck.values |->
                       <<"- undefined: undefined\n">>])
        ELSE <<>>)

\* the second request of system_info
SystemInfoRequest(gen) ==
  IF gen = "original" THEN Req("System", "get", <<>>, <<>>, <<>>, Undef)
  ELSE Req("Setting", "get",
           <<K("civicrm_version"), K("uf_version"), K("db_version")>>,
           <<>>, <<>>, Num(<<"1","0">>))

\* ------------------------------------------------------------------- state
MaxInFlight == 2      \* tool calls a pipelining host has in progress at most
MaxRetries == 3       \* requests a retrying fault variant of a handler sends

VARIABLES
  generation,           \* which of the server files runs
  pipelined,            \* the host sends requests while one is in progress
  env,                  \* process.env: CIVICRM_BASE_URL, _API_KEY, _SITE_KEY
  proc,                 \* "starting", "loaded", "serving" or "exited"
  exitStatus,           \* the status of process.exit, -1 while running
  civiClient,           \* the constructed client's three strings, or none
  customFieldsCache,    \* CiviCRMClient.customFieldsCache
  customFieldMappings,  \* CiviCRMClient.customFieldMappings
  calls,                \* the CallTool handler invocations
  loadAttempted,        \* loadCustomFields has been called in this process
  lastEnsure,           \* how the last finished execution of the load guard went
  lastLoad,             \* the field records of the last metadata response
  loadRuns              \* under a pipelining host, the population loops run
                        \* so far: how many (2 for two or more), and whether
                        \* all got the same records

\* the slots of the handler invocations: one under a host that waits for
\* each response, MaxInFlight under a host that pipelines
Calls == DOMAIN calls

vars ==
  <<generation, pipelined, env, proc, exitStatus, civiClient, customFieldsCache,
    customFieldMappings, calls, loadAttempted, lastEnsure, lastLoad,
    loadRuns>>

\* one invocation of the CallTool handler: where it is suspended (pc), the
\* request in flight (req), the first response of system_info (saved), what
\* the host received (outcome), and what it did so far: metadata queries and
\* entity requests sent, top-level and local catch blocks entered,
\* getCustomFieldApiName calls made and whether one was made before any
\* loadCustomFields call of the process, whether its metadata query and its
\* entity request failed and the messages of the Errors apiV4 threw, the
\* response to its last entity request, and whether its loadCustomFields
\* changed one of the two maps
Call(pc, name, args) ==
  [pc |-> pc, name |-> name, args |-> args, req |-> NoReq, saved |-> NoData,
   outcome |-> NoOutcome, queries |-> 0, requests |-> 0, catches |-> 0,
   localCatches |-> 0, resolves |-> 0, resolvedBeforeLoad |-> FALSE,
   metaFailed |-> FALSE, metaErr |-> <<>>, entityFailed |-> FALSE,
   entityErr |-> <<>>, result |-> NoData, wrote |-> FALSE]

IdleCall == Call("idle", "none", NoArgs)

NoClient == [baseUrl |-> undefined, apiKey |-> undefined, siteKey |-> undefined]

\* process.env at startup: everything set, or one variable unset, or the API
\* key set to the empty string
Env(baseUrl, apiKey, siteKey) ==
  [baseUrl |-> baseUrl, apiKey |-> apiKey, siteKey |-> siteKey]

Environments ==
  { Env(<<"u">>, <<"k">>, <<"s">>),
    Env(<<"u">>, undefined, <<"s">>),
    Env(<<"u">>, EmptyString, <<"s">>),
    Env(<<"u">>, <<"k">>, undefined),
    Env(undefined, <<"k">>, <<"s">>) }

Init ==
  /\ generation \in Generations
  /\ pipelined = FALSE
  /\ env \in Environments
  /\ proc = "starting"
  /\ exitStatus = -1
  /\ civiClient = NoClient
  /\ customFieldsCache = <<>>
  /\ customFieldMappings = EmptyMap
  /\ calls = [c \in {1} |-> IdleCall]
  /\ loadAttempted = FALSE
  /\ lastEnsure = "none"
  /\ lastLoad = <<>>
  /\ loadRuns = [runs |-> 0, same |-> TRUE]

\* ---------------------------------------------------- module initialisation
\* process.env.X || d
EnvOr(v, d) == IF Truthy(v) THEN v ELSE d

\* fault variant of the environment check: only an unset API key is
\* refused, an empty one passes
MissingEnvironmentUnsetOnly(gen, e) == e.apiKey = undefined

\* the environment check of the module body: TRUE when the process exits
MissingEnvironment(gen, e) ==
  IF gen = "index"
  THEN \/ ~Truthy(EnvOr(e.baseUrl, EmptyString))
       \/ ~Truthy(EnvOr(e.apiKey, EmptyString))
       \/ ~Truthy(EnvOr(e.siteKey, EmptyString))
  ELSE ~Truthy(EnvOr(e.apiKey, EmptyString))

\* new CiviCRMClient(baseUrl, apiKey, siteKey)
NewClient(gen, e) ==
  [baseUrl |-> EnvOr(e.baseUrl,
                     IF gen = "index" THEN EmptyString ELSE <<"http://localhost">>),
   apiKey |-> EnvOr(e.apiKey, EmptyString),
   siteKey |-> EnvOr(e.siteKey, EmptyString)]

\* the module body: the environment check, then the client and the handlers
ModuleInit ==
  /\ proc = "starting"
  /\ IF MissingEnvironment(generation, env)
     THEN /\ proc' = "exited"
          /\ exitStatus' = 1
          /\ UNCHANGED civiClient
     ELSE /\ proc' = "loaded"
          /\ civiClient' = NewClient(generation, env)
          /\ UNCHANGED exitStatus
  /\ UNCHANGED <<generation, pipelined, env, customFieldsCache,
                 customFieldMappings, calls, loadAttempted, lastEnsure,
                 lastLoad,
    loadRuns>>

\* main(): server.connect(transport); from here requests are served
Main ==
  /\ proc = "loaded"
  /\ proc' = "serving"
  /\ UNCHANGED <<generation, pipelined, env, exitStatus, civiClient,
                 customFieldsCache, customFieldMappings, calls, loadAttempted,
                 lastEnsure, lastLoad,
    loadRuns>>

\* ------------------------------------------------------- the tool arguments
email == <<"e","m","a","i","l">>

StdArgObjects ==
  { <<>>,
    <<Entry(K("contact_id"), Num(<<"7">>)), Entry(email, Str(<<"x">>))>>,
    <<Entry(K("include_custom_fields"), Bool(FALSE)),
      Entry(K("contact_id"), Num(<<"0">>)), Entry(K("is_active"), Bool(FALSE))>>,
    <<Entry(K("entity_type"), Str(<<"Activity">>)),
      Entry(K("search"), Str(<<"x">>))>> }

\* the standard arguments that come with a custom_fields argument
StdWithCustom ==
  { <<>>,
    <<Entry(K("contact_id"), Num(<<"7">>)), Entry(email, Str(<<"x">>)),
      Entry(<<"V","i">>, Str(<<"w">>)),
      Entry(<<"G",".","i","a">>, Str(<<"v">>))>> }

CustomFieldObjects ==
  { <<>>,
    <<Entry(<<"V","I">>, Str(<<"x">>))>>,
    <<Entry(<<"V","i">>, Str(<<"x">>)), Entry(<<"I","A">>, Str(<<"y">>))>>,
    <<Entry(<<"z","z">>, Str(<<"x">>))>>,
    <<Entry(email, Str(<<"y">>))>> }

\* the handlers that read the custom_fields argument
CustomFieldTools ==
  {"create_contact", "update_contact", "create_activity", "create_contribution"}

UnknownTools == {"no_such_tool"}

ToolNames == ToolsIndex \cup ToolsEnhanced \cup UnknownTools

\* the argument objects a host sends: the tools of part_000 take no
\* custom_fields argument
ArgsFor(gen, name) ==
  {Args(std, FALSE, <<>>) : std \in StdArgObjects} \cup
  (IF gen # "original" /\ name \in CustomFieldTools
   THEN {Args(std, TRUE, cf) : std \in StdWithCustom, cf \in CustomFieldObjects}
   ELSE {})

\* ------------------------------------------------------ the CallTool handler
\* lastEnsure: no execution of the load guard has finished yet ("none"), or
\* the last one that finished found the cache non-empty ("hit"), or sent the
\* metadata query, which succeeded ("loaded") or failed ("failed")

static == <<generation, pipelined, env, proc, exitStatus, civiClient>>

Free(c) == calls[c].pc = "idle"

\* the host sends one request at a time
OneAtATime == \A d \in Calls : Free(d)

\* the server takes a call-tool request into the lowest free slot; a host
\* that does not pipeline sends none while a call is in progress
Accepts(c) ==
  /\ proc = "serving"
  /\ Free(c)
  /\ \A d \in Calls : d < c => ~Free(d)
  /\ ~pipelined => OneAtATime

\* what a pipelining host sends in this model: get_contacts and
\* list_custom_fields calls without arguments
PipelinedTools == {"get_contacts", "list_custom_fields"}

\* const { name, arguments: args } = request.params: the operation names that
\* reach a handler of the given shape in the running file
Named(kind) ==
  {name \in (IF pipelined THEN PipelinedTools ELSE ToolNames) :
     Kind(generation, name) = kind}

\* the argument objects that come with an operation name
Sent(name) == IF pipelined THEN {NoArgs} ELSE ArgsFor(generation, name)

\* return { content: [{ type: 'text', text }] }
Return(call, chunks) ==
  [call EXCEPT !.pc = "done", !.req = NoReq, !.outcome = Text(chunks)]

\* an error thrown inside the try of the CallTool handler and not caught by
\* the case: the catch of the handler takes it
Throw(call, error) ==
  [call EXCEPT !.pc = "done", !.req = NoReq, !.catches = @ + 1,
               !.outcome = TopLevelCatch(error)]

\* await civiClient.apiV4(...): the request goes out, the handler is suspended
AwaitApi(call, pc, req) ==
  [call EXCEPT !.pc = pc, !.req = req, !.requests = @ + 1]

\* the handler from after its load guard (if it has one) to its next await or
\* its return, with the resolver as it is then; attempted: loadCustomFields
\* has been called in the process
Proceed(call, maps, cache, attempted) ==
  LET name == call.name
      args == call.args
      kind == Kind(generation, name)
      resolved == ResolveCount(generation, name, args)
  IN CASE kind = "list_custom_fields" ->
            Return(call, ListCustomFieldsText(generation, cache, args.std))
       [] kind = "system_info" ->
            AwaitApi(call, "sys1", Req("System", "check", <<>>, <<>>, <<>>, Undef))
       [] kind = "placeholder" -> Return(call, PlaceholderText(name))
       [] kind = "unknown" ->
            Throw(call, McpError("MethodNotFound", <<"Unknown tool: ", name>>))
       [] OTHER ->
            [AwaitApi(call, "entity",
                      EntityRequest(generation, name, args, maps, cache))
               EXCEPT !.resolves = resolved,
                      !.resolvedBeforeLoad = resolved > 0 /\ ~attempted]

\* fault variant of the load guard: loadCustomFields is awaited whatever the
\* cache holds
EnsureLoadedAlways(c, name, args) ==
  /\ calls' = [calls EXCEPT ![c] =
                 [Call("load", name, args) EXCEPT
                    !.req = MetadataRequest, !.queries = 1]]
  /\ loadAttempted' = TRUE
  /\ UNCHANGED lastEnsure

\* fault variant of the load guard: the load is attempted once per process,
\* whatever it left in the cache (negative caching)
EnsureLoadedOnce(c, name, args) ==
  IF ~loadAttempted
  THEN /\ calls' = [calls EXCEPT ![c] =
                      [Call("load", name, args) EXCEPT
                         !.req = MetadataRequest, !.queries = 1]]
       /\ loadAttempted' = TRUE
       /\ UNCHANGED lastEnsure
  ELSE /\ calls' = [calls EXCEPT ![c] =
                      Proceed(Call("run", name, args), customFieldMappings,
                              customFieldsCache, loadAttempted)]
       /\ lastEnsure' = "hit"
       /\ UNCHANGED loadAttempted

\* if (customFieldsCache.size === 0) await loadCustomFields(): with an empty
\* cache the metadata query goes out, otherwise the handler goes on at once
EnsureLoaded(c, name, args) ==
  IF Len(customFieldsCache) = 0
  THEN /\ calls' = [calls EXCEPT ![c] =
                      [Call("load", name, args) EXCEPT
                         !.req = MetadataRequest, !.queries = 1]]
       /\ loadAttempted' = TRUE
       /\ UNCHANGED lastEnsure
  ELSE /\ calls' = [calls EXCEPT ![c] =
                      Proceed(Call("run", name, args), customFieldMappings,
                              customFieldsCache, loadAttempted)]
       /\ lastEnsure' = "hit"
       /\ UNCHANGED loadAttempted

\* a handler without a load guard
NoGuard(c, name, args) ==
  /\ calls' = [calls EXCEPT ![c] =
                 Proceed(Call("run", name, args), customFieldMappings,
                         customFieldsCache, loadAttempted)]
  /\ UNCHANGED <<loadAttempted, lastEnsure>>

Dispatched ==
  UNCHANGED <<static, customFieldsCache, customFieldMappings, lastLoad,
    loadRuns>>

\* index.ts: case 'get_contacts', 'get_activities', 'get_contributions'
GetWithCustomFields(c) ==
  /\ Accepts(c)
  /\ \E name \in Named("custom_get") :
       \E args \in Sent(name) :
         /\ IF IncludeCustomFields(name, args.std)
            THEN EnsureLoaded(c, name, args)
            ELSE NoGuard(c, name, args)
  /\ Dispatched

\* index.ts: case 'create_contact'
CreateContact(c) ==
  /\ Accepts(c)
  /\ \E name \in Named("create_contact") :
       \E args \in Sent(name) :
         /\ EnsureLoaded(c, name, args)
  /\ Dispatched

\* index.ts, index_enhanced.ts: case 'list_custom_fields'
ListCustomFields(c) ==
  /\ Accepts(c)
  /\ \E name \in Named("list_custom_fields") :
       \E args \in Sent(name) :
         /\ EnsureLoaded(c, name, args)
  /\ Dispatched

\* index.ts: case 'update_contact', 'create_activity', 'create_contribution'
WriteWithCustomFields(c) ==
  /\ Accepts(c)
  /\ \E name \in Named("custom_write") :
       \E args \in Sent(name) :
         /\ NoGuard(c, name, args)
  /\ Dispatched

\* index.ts, index_enhanced.ts: case 'get_events', 'get_memberships',
\* 'get_groups', 'get_tags', 'get_relationships', 'get_option_values',
\* 'list_option_groups'
PlainGet(c) ==
  /\ Accepts(c)
  /\ \E name \in Named("plain") :
       \E args \in Sent(name) :
         /\ NoGuard(c, name, args)
  /\ Dispatched

\* index.ts: case 'get_cases', 'get_campaigns', 'get_reports': the call is in
\* a try
GuardedGet(c) ==
  /\ Accepts(c)
  /\ \E name \in Named("guarded") :
       \E args \in Sent(name) :
         /\ NoGuard(c, name, args)
  /\ Dispatched

\* index.ts, part_000: case 'system_info'
SystemInfo(c) ==
  /\ Accepts(c)
  /\ \E name \in Named("system_info") :
       \E args \in Sent(name) :
         /\ NoGuard(c, name, args)
  /\ Dispatched

\* part_000: every case but 'system_info'
OriginalTool(c) ==
  /\ Accepts(c)
  /\ \E name \in Named("array") :
       \E args \in Sent(name) :
         /\ NoGuard(c, name, args)
  /\ Dispatched

\* index_enhanced.ts: case 'get_contacts', 'get_organizer_contacts', through
\* getContactsWithCustomFields, whose load guard does not depend on
\* include_custom_fields
EnhancedGetContacts(c) ==
  /\ Accepts(c)
  /\ \E name \in Named("client_get") :
       \E args \in Sent(name) :
         /\ EnsureLoaded(c, name, args)
  /\ Dispatched

\* index_enhanced.ts: case 'create_contact', through
\* createContactWithCustomFields
EnhancedCreateContact(c) ==
  /\ Accepts(c)
  /\ \E name \in Named("client_create") :
       \E args \in Sent(name) :
         /\ EnsureLoaded(c, name, args)
  /\ Dispatched

\* index_enhanced.ts: case 'update_contact'
EnhancedUpdateContact(c) ==
  /\ Accepts(c)
  /\ \E name \in Named("flat_write") :
       \E args \in Sent(name) :
         /\ NoGuard(c, name, args)
  /\ Dispatched

\* index_enhanced.ts: the placeholder cases
Placeholder(c) ==
  /\ Accepts(c)
  /\ \E name \in Named("placeholder") :
       \E args \in Sent(name) :
         /\ NoGuard(c, name, args)
  /\ Dispatched

\* default: throw new McpError(ErrorCode.MethodNotFound, ...), inside the try
UnknownTool(c) ==
  /\ Accepts(c)
  /\ \E name \in Named("unknown") :
       \E args \in Sent(name) :
         /\ NoGuard(c, name, args)
  /\ Dispatched

\* ------------------------------------------------- the remote's answers
\* the metadata query succeeds: the population loop runs, then the handler
\* goes on
MetadataResponse(c, data) ==
  /\ calls[c].pc = "load"
  /\ LET st == LoadFromResponse(data, customFieldMappings, customFieldsCache)
     IN /\ customFieldMappings' = st.maps
        /\ customFieldsCache' = st.cache
        /\ calls' = [calls EXCEPT ![c] =
                       Proceed([calls[c] EXCEPT !.wrote =
                                  \/ st.maps # customFieldMappings
                                  \/ st.cache # customFieldsCache],
                               st.maps, st.cache, loadAttempted)]
  /\ lastLoad' = ValuesOrEmpty(data)
  /\ loadRuns' =
       IF pipelined
       THEN [runs |-> IF loadRuns.runs = 0 THEN 1 ELSE 2,
             same |-> /\ loadRuns.same
                      /\ loadRuns.runs > 0 => ValuesOrEmpty(data) = lastLoad]
       ELSE loadRuns
  /\ lastEnsure' = "loaded"
  /\ UNCHANGED <<static, loadAttempted>>

\* fault variant of loadCustomFields: no catch around the metadata query, the
\* Error of apiV4 leaves loadCustomFields and the case
MetadataFailureUncaught(c, e) ==
  /\ calls[c].pc = "load"
  /\ calls' = [calls EXCEPT ![c] =
                 Throw([calls[c] EXCEPT !.metaFailed = TRUE,
                                        !.metaErr = apiV4Error(e)],
                       Error(apiV4Error(e)))]
  /\ lastEnsure' = "failed"
  /\ UNCHANGED <<static, customFieldsCache, customFieldMappings, loadAttempted,
                 lastLoad,
    loadRuns>>

\* fault variant of the load guard's caller: after a failed load the handler
\* reports the failure instead of going on to its own step
MetadataFailureReported(c, e) ==
  /\ calls[c].pc = "load"
  /\ calls' = [calls EXCEPT ![c] =
                 Return([calls[c] EXCEPT !.metaFailed = TRUE,
                                         !.metaErr = apiV4Error(e)],
                        <<"Error loading custom fields: ">> \o apiV4Error(e))]
  /\ lastEnsure' = "failed"
  /\ UNCHANGED <<static, customFieldsCache, customFieldMappings, loadAttempted,
                 lastLoad,
    loadRuns>>

\* the metadata query fails: apiV4 throws, the catch of loadCustomFields logs
\* the error, then the handler goes on
MetadataFailure(c, e) ==
  /\ calls[c].pc = "load"
  /\ calls' = [calls EXCEPT ![c] =
                 Proceed([calls[c] EXCEPT !.metaFailed = TRUE,
                                          !.metaErr = apiV4Error(e)],
                         customFieldMappings, customFieldsCache,
                         loadAttempted)]
  /\ lastEnsure' = "failed"
  /\ UNCHANGED <<static, customFieldsCache, customFieldMappings, loadAttempted,
                 lastLoad,
    loadRuns>>

Answered ==
  UNCHANGED <<static, customFieldsCache, customFieldMappings, loadAttempted,
              lastEnsure, lastLoad,
    loadRuns>>

\* fault variant of the guarded cases: no try around the await, every error
\* goes to the top-level catch
FinishUncaught(call, result) ==
  IF ~result.threw THEN Return(call, result.text)
  ELSE Throw(call, Error(result.text))

\* the code of a case after its await: a text is returned; an error goes to
\* the local catch of the case if the await is in a try, else to the
\* top-level catch
Finish(call, result) ==
  IF ~result.threw THEN Return(call, result.text)
  ELSE IF Kind(generation, call.name) \in {"guarded", "system_info"}
       THEN Return([call EXCEPT !.localCatches = @ + 1],
                   GuardedText(generation, call.name, result.text))
       ELSE Throw(call, Error(result.text))

\* the handler's apiV4 call returns response.data: the handler formats it
EntityResponse(c, data) ==
  /\ calls[c].pc = "entity"
  /\ calls' = [calls EXCEPT ![c] =
                 Finish([calls[c] EXCEPT !.result = data],
                        HandlerResult(generation, calls[c].name,
                                      calls[c].args, data))]
  /\ Answered

\* fault variant of the failed entity request: the error ends the process
EntityFailureFatal(c, e) ==
  /\ calls[c].pc = "entity"
  /\ calls' = [calls EXCEPT ![c] =
                 Finish([calls[c] EXCEPT !.entityFailed = TRUE,
                                         !.entityErr = apiV4Error(e)],
                        Thrown(apiV4Error(e)))]
  /\ proc' = "exited"
  /\ exitStatus' = 1
  /\ UNCHANGED <<generation, pipelined, env, civiClient, customFieldsCache,
                 customFieldMappings, loadAttempted, lastEnsure, lastLoad,
                 loadRuns>>

\* fault variant of the failed entity request: the handler sends the request
\* again (at most MaxRetries times in the model) instead of giving up
EntityFailureRetry(c, e) ==
  /\ calls[c].pc = "entity"
  /\ calls' = [calls EXCEPT ![c] =
                 [calls[c] EXCEPT !.entityFailed = TRUE,
                                  !.entityErr = apiV4Error(e),
                                  !.requests = IF @ < MaxRetries THEN @ + 1
                                               ELSE @]]
  /\ Answered

\* the handler's apiV4 call throws: the local catch of a guarded handler
\* returns a text, any other handler leaves the error to the top-level catch
EntityFailure(c, e) ==
  /\ calls[c].pc = "entity"
  /\ calls' = [calls EXCEPT ![c] =
                 Finish([calls[c] EXCEPT !.entityFailed = TRUE,
                                         !.entityErr = apiV4Error(e)],
                        Thrown(apiV4Error(e)))]
  /\ Answered

\* system_info: System.check answered, the second request goes out
SystemCheckResponse(c, data) ==
  /\ calls[c].pc = "sys1"
  /\ calls' = [calls EXCEPT ![c] =
                 AwaitApi([calls[c] EXCEPT !.saved = data], "sys2",
                          SystemInfoRequest(generation))]
  /\ Answered

\* system_info: the second request answered, the output is built
SystemInfoResponse(c, data) ==
  /\ calls[c].pc = "sys2"
  /\ calls' = [calls EXCEPT ![c] =
                 Return([calls[c] EXCEPT !.result = data],
                        SystemInfoText(generation, calls[c].saved, data))]
  /\ Answered

\* system_info: one of its two requests fails, its catch returns a text
SystemInfoFailure(c, e) ==
  /\ calls[c].pc \in {"sys1", "sys2"}
  /\ calls' = [calls EXCEPT ![c] =
                 Finish([calls[c] EXCEPT !.entityFailed = TRUE,
                                         !.entityErr = apiV4Error(e)],
                        Thrown(apiV4Error(e)))]
  /\ Answered

\* the transport sends the outcome to the host; the invocation is over
HostReceives(c) ==
  /\ calls[c].pc = "done"
  /\ calls' = [calls EXCEPT ![c] = IdleCall]
  /\ Answered

\* --------------------------------------------------------- specification
Next ==
  \/ ModuleInit
  \/ Main
  \/ \E c \in Calls : GetWithCustomFields(c)
  \/ \E c \in Calls : CreateContact(c)
  \/ \E c \in Calls : ListCustomFields(c)
  \/ \E c \in Calls : WriteWithCustomFields(c)
  \/ \E c \in Calls : PlainGet(c)
  \/ \E c \in Calls : GuardedGet(c)
  \/ \E c \in Calls : SystemInfo(c)
  \/ \E c \in Calls : OriginalTool(c)
  \/ \E c \in Calls : EnhancedGetContacts(c)
  \/ \E c \in Calls : EnhancedCreateContact(c)
  \/ \E c \in Calls : EnhancedUpdateContact(c)
  \/ \E c \in Calls : Placeholder(c)
  \/ \E c \in Calls : UnknownTool(c)
  \/ \E c \in Calls, data \in MetadataResponses : MetadataResponse(c, data)
  \/ \E c \in Calls, e \in RemoteFailures : MetadataFailure(c, e)
  \/ \E c \in Calls, e \in RemoteFailures : EntityFailure(c, e)
  \/ \E c \in Calls, e \in RemoteFailures : SystemInfoFailure(c, e)
  \/ \E c \in Calls, data \in EntityResponses : EntityResponse(c, data)
  \/ \E c \in Calls, data \in EntityResponses : SystemCheckResponse(c, data)
  \/ \E c \in Calls, data \in EntityResponses : SystemInfoResponse(c, data)
  \/ \E c \in Calls : HostReceives(c)

Spec == Init /\ [][Next]_vars

\* ------------------------------------- the resolver with longer responses
MaxLoad == 3          \* field records in one metadata response

LongMetadataResponses ==
  {Data("values", v, undefined, undefined) :
      v \in SeqsUpTo(FieldRecords, MaxLoad)}
    \cup {Data("novalues", <<>>, undefined, undefined)}

\* index.ts or index_enhanced.ts started with its three variables set
InitResolver ==
  /\ Init
  /\ generation \in {"index", "enhanced"}
  /\ env = Env(<<"u">>, <<"k">>, <<"s">>)

\* the host calls list_custom_fields only: the load guard, loadCustomFields
\* and getCustomFieldsForEntity
NextResolver ==
  \/ ModuleInit
  \/ Main
  \/ \E c \in Calls : ListCustomFields(c)
  \/ \E c \in Calls, data \in LongMetadataResponses : MetadataResponse(c, data)
  \/ \E c \in Calls, e \in RemoteFailures : MetadataFailure(c, e)
  \/ \E c \in Calls : HostReceives(c)

SpecResolver == InitResolver /\ [][NextResolver]_vars

\* ------------------------------------------------- a host that pipelines
\* the remote's answers under the pipelining host
PipelinedMetadataResponses ==
  {Data("values", v, undefined, undefined) :
      v \in SeqsUpTo({f \in FieldRecords : f.id \in {<<"1">>, <<"2">>, <<"5">>}},
                     MaxFields)}

PipelinedEntityResponses ==
  { Data("values", <<Rec(<<"5">>, <<>>)>>, undefined, undefined),
    Data("novalues", <<>>, undefined, undefined) }

PipelinedFailures == {Failure(undefined, <<"timeout of 30000ms exceeded">>)}

\* index.ts or index_enhanced.ts started with its three variables set, under
\* a host that sends requests while earlier ones are in progress
InitPipelined ==
  /\ generation \in {"index", "enhanced"}
  /\ pipelined = TRUE
  /\ env = Env(<<"u">>, <<"k">>, <<"s">>)
  /\ proc = "starting"
  /\ exitStatus = -1
  /\ civiClient = NoClient
  /\ customFieldsCache = <<>>
  /\ customFieldMappings = EmptyMap
  /\ calls = [c \in 1..MaxInFlight |-> IdleCall]
  /\ loadAttempted = FALSE
  /\ lastEnsure = "none"
  /\ lastLoad = <<>>
  /\ loadRuns = [runs |-> 0, same |-> TRUE]

NextPipelined ==
  \/ ModuleInit
  \/ Main
  \/ \E c \in Calls : GetWithCustomFields(c)
  \/ \E c \in Calls : EnhancedGetContacts(c)
  \/ \E c \in Calls : ListCustomFields(c)
  \/ \E c \in Calls, data \in PipelinedMetadataResponses :
       MetadataResponse(c, data)
  \/ \E c \in Calls, e \in PipelinedFailures : MetadataFailure(c, e)
  \/ \E c \in Calls, e \in PipelinedFailures : EntityFailure(c, e)
  \/ \E c \in Calls, data \in PipelinedEntityResponses : EntityResponse(c, data)
  \/ \E c \in Calls : HostReceives(c)

SpecPipelined == InitPipelined /\ [][NextPipelined]_vars

\* ------------------------------------- every remote request terminates
\* the remote's answers to the metadata query in the specification with
\* fairness: no record, one well-formed record, one record without a short
\* name, or a body without a values list
LiveMetadataResponses ==
  {Data("values", v, undefined, undefined) :
      v \in SeqsUpTo({f \in FieldRecords : f.id \in {<<"1">>, <<"5">>}}, 1)}
    \cup {Data("novalues", <<>>, undefined, undefined)}

\* one of the three server files started with its three variables set
InitLive ==
  /\ Init
  /\ env = Env(<<"u">>, <<"k">>, <<"s">>)

\* the request in flight of some call ends: with a response, with an error or
\* with the 30-second timeout of the http client
Answer ==
  \/ \E c \in Calls, data \in LiveMetadataResponses : MetadataResponse(c, data)
  \/ \E c \in Calls, e \in RemoteFailures : MetadataFailure(c, e)
  \/ \E c \in Calls, e \in RemoteFailures : EntityFailure(c, e)
  \/ \E c \in Calls, e \in RemoteFailures : SystemInfoFailure(c, e)
  \/ \E c \in Calls, data \in EntityResponses : EntityResponse(c, data)
  \/ \E c \in Calls, data \in EntityResponses : SystemCheckResponse(c, data)
  \/ \E c \in Calls, data \in EntityResponses : SystemInfoResponse(c, data)

NextLive ==
  \/ ModuleInit
  \/ Main
  \/ \E c \in Calls : GetWithCustomFields(c)
  \/ \E c \in Calls : CreateContact(c)
  \/ \E c \in Calls : ListCustomFields(c)
  \/ \E c \in Calls : WriteWithCustomFields(c)
  \/ \E c \in Calls : PlainGet(c)
  \/ \E c \in Calls : GuardedGet(c)
  \/ \E c \in Calls : SystemInfo(c)
  \/ \E c \in Calls : OriginalTool(c)
  \/ \E c \in Calls : EnhancedGetContacts(c)
  \/ \E c \in Calls : EnhancedCreateContact(c)
  \/ \E c \in Calls : EnhancedUpdateContact(c)
  \/ \E c \in Calls : Placeholder(c)
  \/ \E c \in Calls : UnknownTool(c)
  \/ Answer
  \/ \E c \in Calls : HostReceives(c)

\* every outbound remote request terminates: a request in flight is
\* eventually answered
SpecLive == InitLive /\ [][NextLive]_vars /\ WF_vars(Answer)

TypeOK ==
  /\ pipelined \in BOOLEAN
  /\ proc \in {"starting", "loaded", "serving", "exited"}
  /\ \A c \in Calls : calls[c].outcome.kind \in {"none", "text", "error"}

\* ------------------------------------------------------------- properties
\* a field record the population loop processes completely
Complete(field) == field.label # undefined /\ field.name # undefined

\* the loop reaches record j of the list: no record before it threw
Reached(list, j) == \A k \in 1..(j - 1) : Complete(list[k])

\* record i of the list is loaded: the loop reached and completed it
LoadedAt(list, i) == Reached(list, i) /\ Complete(list[i])

\* `${group}.${name}` of a field record
OwnApiName(field) == Template(field.group) \o <<".">> \o Template(field.name)

\* the alias keys the loop writes when it processes a record
AliasesOf(field) ==
  IF field.label = undefined THEN {}
  ELSE {toLowerCase(field.label)} \cup
       (IF field.name = undefined THEN {} ELSE {toLowerCase(field.name)})

\* both aliases of the field resolve to the field's own API name
ResolvesToOwn(field) ==
  /\ getCustomFieldApiName(customFieldMappings, toLowerCase(field.label))
       = OwnApiName(field)
  /\ getCustomFieldApiName(customFieldMappings, toLowerCase(field.name))
       = OwnApiName(field)

\* no record processed after record i writes one of the aliases of record i
NotShadowed(list, i) ==
  \A j \in (i + 1)..Len(list) :
    Reached(list, j) => AliasesOf(list[j]) \cap AliasesOf(list[i]) = {}

\* C1, as stated: after loadCustomFields, the lower-cased label and the
\* lower-cased short name of every loaded field resolve to that field's own
\* composite API name, also when fields of the list share a label or a short
\* name case-insensitively
C1_EveryLoadedFieldResolvesToOwn ==
  \A i \in DOMAIN lastLoad :
    LoadedAt(lastLoad, i) => ResolvesToOwn(lastLoad[i])

\* C1, amended: after loadCustomFields, the lower-cased label and the
\* lower-cased short name of a loaded field resolve to that field's own
\* composite API name if no record that the loop processes later in the list
\* has a label or a short name equal to one of them case-insensitively
C1_UnshadowedFieldResolvesToOwn ==
  \A i \in DOMAIN lastLoad :
    LoadedAt(lastLoad, i) /\ NotShadowed(lastLoad, i)
      => ResolvesToOwn(lastLoad[i])

\* C1: a load of two fields, both loaded, the first not shadowed, the second
\* with a label that has an upper-case letter
C1_Witness ==
  /\ Len(lastLoad) = 2
  /\ LoadedAt(lastLoad, 2)
  /\ NotShadowed(lastLoad, 1)
  /\ toLowerCase(lastLoad[2].label) # lastLoad[2].label
  /\ DOMAIN customFieldMappings # {}

\* the last load guard that finished left the cache empty although the fetch
\* succeeded
LoadedNothing ==
  lastEnsure = "loaded" /\ (lastLoad = <<>> \/ ~Complete(lastLoad[1]))

\* C2, as stated: when the load guard is executed twice in a row and the
\* fetch does not fail, the metadata query is sent exactly once, whatever the
\* successful response was: no query goes out after a guard that loaded or
\* found the cache filled
C2_NoQueryAfterSuccessfulGuard ==
  \A c \in Calls :
    calls[c].pc = "load" => lastEnsure \in {"none", "failed"}

\* C2, amended: when the load guard is executed twice in a row and the fetch
\* does not fail, the metadata query is sent exactly once if the first
\* response put at least one field into the cache; the second guard sends it
\* again only after a response that loaded no field
C2_QueryAgainOnlyAfterEmptyLoad ==
  \A c \in Calls :
    /\ calls[c].pc = "load" =>
         lastEnsure \in {"none", "failed"} \/ LoadedNothing
    /\ calls[c].pc = "load" => calls[c].queries = 1
    /\ lastEnsure = "hit" /\ calls[c].pc # "idle" => calls[c].queries = 0

\* C2: a second load guard has run after a successful load and sent nothing
C2_Witness ==
  \E c \in Calls :
    /\ lastEnsure = "hit"
    /\ calls[c].pc \in {"entity", "done"}
    /\ calls[c].queries = 0
    /\ Len(lastLoad) > 0

\* C3, as stated: a tool call whose name is not a registered operation name
\* ends with a MethodNotFound error delivered to the host, not with an
\* InternalError
C3_UnknownToolEndsMethodNotFound ==
  \A c \in Calls :
    calls[c].pc = "done" /\ calls[c].name \notin Registered(generation)
      => /\ calls[c].outcome.kind = "error"
         /\ calls[c].outcome.code = "MethodNotFound"

\* C4, as stated: every getCustomFieldApiName call of a handler happens after
\* loadCustomFields has been attempted at least once in the process
C4_NoResolveBeforeFirstLoad ==
  \A c \in Calls : ~calls[c].resolvedBeforeLoad

\* the strings getCustomFieldApiName is asked about
Probes ==
  { <<"z">>, <<"Z">>, <<"z","z">>, <<"V","i">>, <<"I","A">>, <<"s","t">>,
    email, EmptyString }

\* the lower-cased labels and short names of the loaded fields
LoadedAliases ==
  UNION {AliasesOf(lastLoad[i]) :
           i \in {j \in DOMAIN lastLoad : LoadedAt(lastLoad, j)}}

\* C5, as stated: in every reachable resolver state getCustomFieldApiName(s)
\* returns null for every string s whose lower-cased form is neither a
\* lower-cased label nor a lower-cased short name of a loaded field
C5_UnknownNameResolvesToNull ==
  \A s \in Probes :
    toLowerCase(s) \notin LoadedAliases
      => getCustomFieldApiName(customFieldMappings, s) = null

EntityTypes == {<<"Contact">>, <<"Activity">>, <<"Contribution">>}

\* a step in which the metadata query of call c fails
LoadFails(c) ==
  calls[c].pc = "load" /\ calls'[c].pc # "load" /\ calls'[c].metaFailed

\* C6: if the metadata fetch in loadCustomFields fails, loadCustomFields
\* returns normally (no catch block of the handler is entered for it), both
\* maps keep the content they had before the call and, the cache having been
\* empty before, getCustomFieldsForEntity returns an empty list for every
\* entity type
C6_FailedLoadLeavesResolverAsItWas ==
  [][\A c \in Calls :
       LoadFails(c) =>
         /\ calls'[c].catches = 0
         /\ calls'[c].pc \in {"entity", "done"}
         /\ customFieldMappings' = customFieldMappings
         /\ customFieldsCache' = customFieldsCache
         /\ customFieldsCache = <<>> =>
              \A t \in EntityTypes :
                getCustomFieldsForEntity(customFieldsCache', t) = <<>>]_vars

\* C6: the first load of the process has failed and its handler went on
C6_Witness ==
  \E c \in Calls :
    /\ calls[c].metaFailed
    /\ calls[c].pc = "entity"
    /\ lastEnsure = "failed"
    /\ lastLoad = <<>>
    /\ customFieldsCache = <<>>

\* the handlers that run the load guard when the cache is empty
LoadsFirst(name, args) ==
  \/ Kind(generation, name) \in {"create_contact", "list_custom_fields",
                                 "client_get", "client_create"}
  \/ Kind(generation, name) = "custom_get"
       /\ IncludeCustomFields(name, args.std)

\* what the host receives from the handler's own step
OwnStepOutcome(call) ==
  CASE Kind(generation, call.name) = "list_custom_fields" ->
         Text(ListCustomFieldsText(generation, <<>>, call.args.std))
    [] call.entityFailed -> TopLevelCatch(Error(call.entityErr))
    [] OTHER ->
         LET r == HandlerResult(generation, call.name, call.args, call.result)
         IN IF r.threw THEN TopLevelCatch(Error(r.text)) ELSE Text(r.text)

\* C7: a metadata-load failure is not fatal for the tool call that triggered
\* it: the handler goes on to its own step (the entity request with only the
\* fixed select list, or the text of list_custom_fields for no fields), and
\* the outcome of the call is the outcome of that step
C7_MetadataFailureIsNotFatal ==
  \A c \in Calls :
    calls[c].metaFailed =>
      /\ calls[c].pc \in {"entity", "done"}
      /\ calls[c].pc = "entity" =>
           /\ calls[c].requests = 1
           /\ calls[c].outcome = NoOutcome
           /\ calls[c].req.entity = EntityOf(calls[c].name)
           /\ calls[c].req.action = "get" =>
                calls[c].req.select = FixedSelect(generation, calls[c].name)
      /\ calls[c].pc = "done" =>
           /\ calls[c].outcome = OwnStepOutcome(calls[c])
           /\ calls[c].outcome.kind = "error" => calls[c].catches = 1
           /\ generation = "index"
                /\ calls[c].name = "list_custom_fields" =>
                Contains(calls[c].outcome.text,
                         <<"No custom fields found for ">>)

\* C7: get_contacts of index.ts has returned its list after its metadata
\* query failed
C7_Witness ==
  \E c \in Calls :
    /\ generation = "index"
    /\ calls[c].name = "get_contacts"
    /\ calls[c].metaFailed
    /\ calls[c].pc = "done"
    /\ calls[c].outcome.kind = "text"
    /\ calls[c].result.shape = "values"
    /\ Len(calls[c].result.values) > 0

\* the handlers whose apiV4 call is not inside a try of the case
NoLocalCatch(name) ==
  Kind(generation, name) \in {"custom_get", "create_contact", "custom_write",
                              "plain", "array", "client_get", "client_create",
                              "flat_write"}

\* error.response?.data?.error_message || error.message
RemoteMessage(e) ==
  IF Truthy(e.error_message) THEN e.error_message ELSE e.message

\* C8: when the remote request of a handler without a local catch fails, the
\* failure is caught exactly once, by the top-level catch, and the host
\* receives an InternalError whose message is 'Tool execution failed:
\* CiviCRM API v4 Error: ' followed by the remote's message
C8_RemoteFailureCaughtOnceAtTopLevel ==
  \A c \in Calls :
    calls[c].pc = "done" /\ calls[c].entityFailed
        /\ NoLocalCatch(calls[c].name)
      => /\ calls[c].catches = 1
         /\ calls[c].localCatches = 0
         /\ calls[c].outcome.kind = "error"
         /\ calls[c].outcome.code = "InternalError"
         /\ \E e \in RemoteFailures :
              calls[c].outcome.text =
                <<"Tool execution failed: ", "CiviCRM API v4 Error: ">>
                  \o RemoteMessage(e)

\* C8: the entity request of create_contact has failed with a remote message
\* and the call is over
C8_Witness ==
  \E c \in Calls :
    /\ calls[c].name = "create_contact"
    /\ calls[c].pc = "done"
    /\ calls[c].entityFailed
    /\ calls[c].requests = 1
    /\ Contains(calls[c].entityErr, <<"DB Error">>)

\* the handlers whose remote requests are inside a try of the case
LocalCatch(name) == Kind(generation, name) \in {"guarded", "system_info"}

\* C9, as stated: for get_cases, get_campaigns, get_reports and system_info a
\* failure of a remote request of the handler never reaches the host as an
\* error: the call returns a text that contains the failure text
C9_GuardedFailureReturnsFailureText ==
  \A c \in Calls :
    calls[c].pc = "done" /\ calls[c].entityFailed /\ LocalCatch(calls[c].name)
      => /\ calls[c].outcome.kind = "text"
         /\ Contains(calls[c].outcome.text, calls[c].entityErr)

\* C9, amended: for get_cases, get_campaigns, get_reports and system_info a
\* failure of a remote request of the handler never reaches the host as an
\* error: the call returns a text, entered through the local catch only; in
\* index.ts the text is a descriptive prefix followed by the failure text,
\* in part_000 system_info returns a fixed note without the failure text
C9_GuardedFailureReturnsText ==
  \A c \in Calls :
    calls[c].pc = "done" /\ calls[c].entityFailed /\ LocalCatch(calls[c].name)
      => /\ calls[c].outcome.kind = "text"
         /\ calls[c].catches = 0
         /\ calls[c].localCatches = 1
         /\ IF generation = "original"
            THEN /\ ~Contains(calls[c].outcome.text, calls[c].entityErr)
                 /\ Contains(calls[c].outcome.text,
                      <<"Note: Some system details require additional permissions\n">>)
            ELSE /\ Contains(calls[c].outcome.text, calls[c].entityErr)
                 /\ Len(calls[c].outcome.text) > Len(calls[c].entityErr)

\* C9: the second request of system_info of index.ts has failed and the call
\* is over
C9_Witness ==
  \E c \in Calls :
    /\ generation = "index"
    /\ calls[c].name = "system_info"
    /\ calls[c].pc = "done"
    /\ calls[c].entityFailed
    /\ calls[c].requests = 2

\* the API key is absent or empty
NoApiKey == env.apiKey \in {undefined, EmptyString}

\* C10: if CIVICRM_API_KEY is absent or empty at startup, the process exits
\* with a non-zero status before the client is constructed and before any
\* request is served
C10_NoApiKeyExitsBeforeServing ==
  NoApiKey =>
    /\ proc \in {"starting", "exited"}
    /\ proc = "exited" <=> exitStatus # -1
    /\ proc = "exited" => exitStatus > 0
    /\ civiClient = NoClient
    /\ \A c \in Calls : calls[c] = IdleCall

\* C10: the process has exited on an empty API key
C10_Witness ==
  /\ env.apiKey = EmptyString
  /\ proc = "exited"
  /\ exitStatus = 1
  /\ civiClient = NoClient

\* the base URL and the API key are set, the site key is not
NoSiteKey ==
  /\ Truthy(env.baseUrl)
  /\ Truthy(env.apiKey)
  /\ env.siteKey = undefined

\* C11: with the base URL and the API key set and CIVICRM_SITE_KEY absent,
\* the process does not exit at startup: the module body builds the client
\* and the process goes on to serve
C11_SiteKeyIsOptional ==
  NoSiteKey => /\ proc # "exited"
               /\ exitStatus = -1
               /\ proc = "serving" => civiClient.siteKey = EmptyString

\* a create_contact call of index_enhanced.ts that is suspended at the request
\* createContactWithCustomFields sent
SplitDone(c) ==
  /\ Kind(generation, calls[c].name) = "client_create"
  /\ calls[c].pc = "entity"

\* the contactData the handler passed to createContactWithCustomFields
ContactDataOf(c) == Spread(calls[c].args.std, CustomEntries(calls[c].args))

\* the positions of contactData whose key resolves to apiName
ResolvingTo(contactData, apiName) ==
  {i \in DOMAIN contactData :
     getCustomFieldApiName(customFieldMappings, contactData[i].key) = apiName}

\* the two objects are a partition of the keys: the keys that miss are the
\* keys of standardFields, each with its value, and the API names of the keys
\* that hit are the keys of customFields; the request carries the merge
SplitPartitions(contactData, standardFields, customFields) ==
  LET api(i) == getCustomFieldApiName(customFieldMappings, contactData[i].key)
      hits == {i \in DOMAIN contactData : Truthy(api(i))}
  IN /\ Keys(standardFields) =
          {contactData[i].key : i \in DOMAIN contactData \ hits}
     /\ Keys(customFields) = {api(i) : i \in hits}
     /\ Len(standardFields) + Cardinality(hits) = Len(contactData)
     /\ \A i \in DOMAIN contactData \ hits :
          Get(standardFields, contactData[i].key) = contactData[i].value
     /\ customFieldMappings = EmptyMap =>
          standardFields = contactData /\ customFields = <<>>

\* C12: the flat split of createContactWithCustomFields sends every input key
\* to exactly one of the two maps: on a hit to customFields under
\* getCustomFieldApiName(k) with its own value, on a miss to standardFields
\* under k with its value; with no field loaded everything is in
\* standardFields
C12_SplitKeepsEveryValue ==
  \A c \in Calls :
    SplitDone(c) =>
      LET contactData == ContactDataOf(c)
          standardFields == SplitStandardFields(customFieldMappings, contactData)
          customFields == SplitCustomFields(customFieldMappings, contactData)
      IN /\ calls[c].req.values = Spread(standardFields, customFields)
         /\ SplitPartitions(contactData, standardFields, customFields)
         /\ \A i \in DOMAIN contactData :
              LET apiName == getCustomFieldApiName(customFieldMappings,
                                                   contactData[i].key)
              IN Truthy(apiName) =>
                   Get(customFields, apiName) = contactData[i].value

\* C12 as the code has it: as above, but the value stored under an API name
\* is the value of the last input key that resolves to that name
C12_SplitKeepsLastValuePerApiName ==
  \A c \in Calls :
    SplitDone(c) =>
      LET contactData == ContactDataOf(c)
          standardFields == SplitStandardFields(customFieldMappings, contactData)
          customFields == SplitCustomFields(customFieldMappings, contactData)
      IN /\ calls[c].req.values = Spread(standardFields, customFields)
         /\ SplitPartitions(contactData, standardFields, customFields)
         /\ \A i \in DOMAIN contactData :
              LET apiName == getCustomFieldApiName(customFieldMappings,
                                                   contactData[i].key)
                  same == ResolvingTo(contactData, apiName)
                  last == CHOOSE j \in same : \A k \in same : k <= j
              IN Truthy(apiName) =>
                   Get(customFields, apiName) = contactData[last].value

\* a split with a key that hits, a key that misses and two keys that resolve
\* to one API name
C12_Witness ==
  \E c \in Calls :
    /\ SplitDone(c)
    /\ LET contactData == ContactDataOf(c)
           api(i) == getCustomFieldApiName(customFieldMappings,
                                           contactData[i].key)
       IN /\ \E i \in DOMAIN contactData : ~Truthy(api(i))
          /\ \E i, j \in DOMAIN contactData :
               i # j /\ Truthy(api(i)) /\ api(i) = api(j)

\* the descriptor the loop stores for a field record
DescriptorOf(field) ==
  [apiName |-> OwnApiName(field), id |-> field.id, name |-> field.name,
   label |-> field.label, group |-> field.group, extends |-> field.extends,
   dataType |-> field.data_type, htmlType |-> field.html_type]

\* fields holds exactly the cached descriptors that extend entityType, each
\* once
ExactlyTheCached(fields, entityType) ==
  /\ \A i \in DOMAIN fields :
       /\ fields[i].extends = entityType
       /\ \E j \in DOMAIN customFieldsCache : customFieldsCache[j] = fields[i]
  /\ \A j \in DOMAIN customFieldsCache :
       customFieldsCache[j].extends = entityType =>
         Cardinality({i \in DOMAIN fields : fields[i] = customFieldsCache[j]}) = 1
  /\ \A j \in DOMAIN customFieldsCache :
       customFieldsCache[j].extends # entityType =>
         \A i \in DOMAIN fields : fields[i] # customFieldsCache[j]

\* the descriptors of fields are records of the response, in the order of
\* the response
InResponseOrder(fields, list) ==
  \E f \in [DOMAIN fields -> DOMAIN list] :
    /\ \A i \in DOMAIN fields : DescriptorOf(list[f[i]]) = fields[i]
    /\ \A i, j \in DOMAIN fields : i < j => f[i] < f[j]

\* the spec's invariant on the remote's data: the composite API name is
\* unique per field, here among the records of the response that are loaded
DistinctApiNames(list) ==
  \A i, j \in DOMAIN list :
    (i # j /\ LoadedAt(list, i) /\ LoadedAt(list, j))
      => OwnApiName(list[i]) # OwnApiName(list[j])

\* the loaded records of the response that extend entityType
LoadedFor(list, entityType) ==
  {i \in DOMAIN list : LoadedAt(list, i) /\ list[i].extends = entityType}

\* C13: getCustomFieldsForEntity(t) returns exactly the cached descriptors
\* that extend t, none that extends another entity, each once, in the order
\* in which the remote returned them at load time (the remote's composite
\* API names being unique per field)
C13_FieldsForEntityInResponseOrder ==
  \A t \in EntityTypes :
    DistinctApiNames(lastLoad) =>
      LET fields == getCustomFieldsForEntity(customFieldsCache, t)
      IN /\ ExactlyTheCached(fields, t)
         /\ Len(fields) = Cardinality(LoadedFor(lastLoad, t))
         /\ InResponseOrder(fields, lastLoad)

\* list_custom_fields has answered from a cache that holds two fields of one
\* entity and a field of another
C13_Witness ==
  /\ \E c \in Calls :
       calls[c].pc = "done" /\ calls[c].name = "list_custom_fields"
  /\ DistinctApiNames(lastLoad)
  /\ \E t \in EntityTypes :
       /\ Len(getCustomFieldsForEntity(customFieldsCache, t)) = 2
       /\ Len(customFieldsCache) = 3
       /\ lastLoad[2].extends # t

\* records i < j of the response are both loaded and share their label
\* case-insensitively, in different groups
SameLabelPair(list, i, j) ==
  /\ i < j
  /\ LoadedAt(list, i)
  /\ LoadedAt(list, j)
  /\ toLowerCase(list[i].label) = toLowerCase(list[j].label)
  /\ list[i].group # list[j].group

\* no record processed after record j writes the label alias of record j
LabelNotRewritten(list, j) ==
  \A k \in (j + 1)..Len(list) :
    Reached(list, k) => toLowerCase(list[j].label) \notin AliasesOf(list[k])

\* records i and j are the only loaded records of the response with their
\* label
OnlyTwoWithLabel(list, i, j) ==
  \A k \in DOMAIN list \ {i, j} :
    (LoadedAt(list, k) /\ Complete(list[k]))
      => toLowerCase(list[k].label) # toLowerCase(list[i].label)

\* C14: when two loaded fields share a label case-insensitively in different
\* groups, the label resolves to the API name of the one that is later in
\* the response, wherever the two are in the response
C14_LaterOfTwoSameLabelWins ==
  \A i, j \in DOMAIN lastLoad :
    (/\ DistinctApiNames(lastLoad)
     /\ SameLabelPair(lastLoad, i, j)
     /\ OnlyTwoWithLabel(lastLoad, i, j))
      => getCustomFieldApiName(customFieldMappings, lastLoad[i].label)
           = OwnApiName(lastLoad[j])

\* C14 as the code has it: the later of the two wins unless a record that is
\* processed after it has the same string as its label or short name
C14_LastWriterOfLabelWins ==
  \A i, j \in DOMAIN lastLoad :
    SameLabelPair(lastLoad, i, j) /\ LabelNotRewritten(lastLoad, j) =>
      /\ getCustomFieldApiName(customFieldMappings, lastLoad[i].label)
           = OwnApiName(lastLoad[j])
      /\ getCustomFieldApiName(customFieldMappings, lastLoad[j].label)
           = OwnApiName(lastLoad[j])

\* a load of three records has finished whose first and last share a label
\* in different groups, with another record between them
C14_Witness ==
  /\ lastEnsure = "loaded"
  /\ Len(lastLoad) = 3
  /\ SameLabelPair(lastLoad, 1, 3)
  /\ LabelNotRewritten(lastLoad, 3)
  /\ lastLoad[2] \notin {lastLoad[1], lastLoad[3]}
  /\ \E c \in Calls : calls[c].pc = "done"

\* a step in which some call sends the CustomField metadata query
SendsMetadataQuery ==
  \E c \in Calls :
    /\ calls'[c].pc = "load"
    /\ calls[c].pc # "load"
    /\ calls'[c].req = MetadataRequest

\* a step in which loadCustomFields of some call runs its population loop
LoadRuns ==
  \E c \in Calls :
    /\ calls[c].pc = "load"
    /\ calls[c].req = MetadataRequest
    /\ calls'[c].pc # "load"
    /\ ~calls'[c].metaFailed

\* C15: once the descriptor cache holds an entry, no step of a later tool
\* call sends the metadata query again or changes the descriptor cache or the
\* alias index; and the two maps change in no step but the population loop of
\* loadCustomFields
C15_LoadedResolverIsNeverWrittenAgain ==
  [][/\ Len(customFieldsCache) > 0 =>
          /\ ~SendsMetadataQuery
          /\ customFieldsCache' = customFieldsCache
          /\ customFieldMappings' = customFieldMappings
     /\ (customFieldsCache' # customFieldsCache
           \/ customFieldMappings' # customFieldMappings) => LoadRuns]_vars

\* with a filled cache, a call that has a load guard and resolves a
\* custom_fields key has finished without a metadata query
C15_Witness ==
  /\ Len(customFieldsCache) > 0
  /\ lastEnsure = "hit"
  /\ \E c \in Calls :
       /\ calls[c].pc = "done"
       /\ LoadsFirst(calls[c].name, calls[c].args)
       /\ calls[c].queries = 0
       /\ calls[c].resolves > 0

\* C16: when a second call that needs custom fields is dispatched while the
\* first is suspended at the metadata request, the CustomField query is not
\* sent again: never are two metadata queries in flight
C16_OneMetadataQueryInFlight ==
  \A c, d \in Calls :
    (c # d /\ calls[c].pc = "load" /\ calls[c].req = MetadataRequest)
      => ~(calls[d].pc = "load" /\ calls[d].queries = 1)

\* the resolver a single run of loadCustomFields leaves, started from the
\* empty maps of a fresh process
SingleRun(list) ==
  LoadFromResponse(Data("values", list, undefined, undefined), EmptyMap, <<>>)

\* C17: when the population loop has run two or more times, interleaved at
\* the network call or one after the other, and every run got the same
\* records, the descriptor cache (entries and order) and the alias index are
\* those a single run leaves
C17_DoublePopulationEqualsSingleRun ==
  (loadRuns.runs = 2 /\ loadRuns.same) =>
    /\ customFieldsCache = SingleRun(lastLoad).cache
    /\ customFieldMappings = SingleRun(lastLoad).maps

\* two calls were suspended at the metadata request together, both got the
\* same two records and both have gone on
C17_Witness ==
  /\ loadRuns.runs = 2
  /\ loadRuns.same
  /\ Len(lastLoad) = 2
  /\ Len(customFieldsCache) > 0
  /\ \A c \in {1, 2} :
       /\ calls[c].queries = 1
       /\ ~calls[c].metaFailed
       /\ calls[c].pc \in {"entity", "done"}

\* the standard top-level arguments of a create_contact or update_contact
\* call that go into the values of the request (contact_id of update_contact
\* goes into its where)
StandardArguments(call) ==
  IF call.name = "update_contact"
  THEN Rest(call.args.std, {K("contact_id")})
  ELSE call.args.std

\* C18: in create_contact and update_contact only the keys of the nested
\* custom_fields argument are resolved: every standard top-level argument is
\* in the values sent to the remote under its original key, whatever fields
\* are loaded
C18_StandardArgumentsKeepTheirKeys ==
  \A c \in Calls :
    (calls[c].pc = "entity"
       /\ calls[c].name \in {"create_contact", "update_contact"})
      => Keys(StandardArguments(calls[c])) \subseteq Keys(calls[c].req.values)

\* a get_contacts, get_activities or get_contributions call of index.ts with
\* include_custom_fields true that is suspended at its entity request
SelectSent(c) ==
  /\ Kind(generation, calls[c].name) = "custom_get"
  /\ IncludeCustomFields(calls[c].name, calls[c].args.std)
  /\ calls[c].pc = "entity"

\* the select list without the handler's fixed list
CustomPart(c) ==
  SubSeq(calls[c].req.select,
         Len(FixedSelect(generation, calls[c].name)) + 1,
         Len(calls[c].req.select))

FixedPart(c) ==
  SubSeq(calls[c].req.select, 1, Len(FixedSelect(generation, calls[c].name)))

\* C19: the select list of get_contacts, get_activities and get_contributions
\* with include_custom_fields true is the fixed list followed by the API
\* names of exactly the loaded fields that extend the entity, in load order,
\* and by no API name of a loaded field that extends another entity (the
\* remote's composite API names being unique per field)
C19_SelectHasNamesOfLoadedFieldsOfEntity ==
  \A c \in Calls :
    (SelectSent(c) /\ DistinctApiNames(lastLoad)) =>
      LET t == ExtendsOf(calls[c].name)
          custom == CustomPart(c)
      IN /\ FixedPart(c) = FixedSelect(generation, calls[c].name)
         /\ Range(custom) = {OwnApiName(lastLoad[i]) : i \in LoadedFor(lastLoad, t)}
         /\ Len(custom) = Cardinality(LoadedFor(lastLoad, t))
         /\ \A i \in DOMAIN lastLoad :
              (LoadedAt(lastLoad, i) /\ lastLoad[i].extends # t)
                => OwnApiName(lastLoad[i]) \notin Range(custom)
         /\ \E f \in [DOMAIN custom -> DOMAIN lastLoad] :
              /\ \A i \in DOMAIN custom : OwnApiName(lastLoad[f[i]]) = custom[i]
              /\ \A i, j \in DOMAIN custom : i < j => f[i] < f[j]

\* a select list with one custom name sent while the cache also holds a field
\* of another entity
C19_Witness ==
  \E c \in Calls :
    /\ SelectSent(c)
    /\ DistinctApiNames(lastLoad)
    /\ Len(CustomPart(c)) = 1
    /\ Len(customFieldsCache) = 2
    /\ calls[c].queries = 0

\* call c ends in an error in this step
EndsInError(c) ==
  /\ calls'[c].outcome.kind = "error"
  /\ calls[c].outcome.kind # "error"

\* the host takes the error of call c in this step
ErrorDelivered(c) ==
  /\ calls[c].outcome.kind = "error"
  /\ calls[c].pc = "done"
  /\ calls'[c].pc = "idle"

\* C20: a tool-call failure never stops the server: when a call has ended in
\* an error the process is still serving, the call has left the descriptor
\* cache and the alias index as they were when it was dispatched, and the
\* next call is taken
C20_FailedCallChangesNothing ==
  \A c \in Calls :
    calls[c].outcome.kind = "error" =>
      /\ proc = "serving"
      /\ exitStatus = -1
      /\ ~calls[c].wrote

\* C20 as the code has it: the step in which a call ends in an error leaves
\* the process serving and writes neither map; a call that ends in an error
\* has changed the maps only through a metadata load of its own that
\* succeeded before the failure; and once the host has the error, the maps
\* are as the call left them and the server takes the next call
C20_FailureLeavesServerServing ==
  [][\A c \in Calls :
       /\ EndsInError(c) =>
            /\ proc' = "serving"
            /\ exitStatus' = -1
            /\ customFieldsCache' = customFieldsCache
            /\ customFieldMappings' = customFieldMappings
            /\ calls'[c].wrote =>
                 calls'[c].queries = 1 /\ ~calls'[c].metaFailed
       /\ ErrorDelivered(c) =>
            /\ proc' = "serving"
            /\ customFieldsCache' = customFieldsCache
            /\ customFieldMappings' = customFieldMappings
            /\ calls'[c] = IdleCall
            /\ (\A d \in Calls : calls'[d].pc = "idle") => Accepts(1)']_vars

\* a call whose own load filled the maps has ended in an error after its
\* entity request failed
C20_Witness ==
  \E c \in Calls :
    /\ calls[c].pc = "done"
    /\ calls[c].outcome.kind = "error"
    /\ calls[c].entityFailed
    /\ calls[c].wrote
    /\ Len(customFieldsCache) > 0

\* the strings a and b differ only in letter case: the same length, and at
\* every position the same character or the two cases of one letter
DifferOnlyInCase(a, b) ==
  /\ Len(a) = Len(b)
  /\ \A i \in DOMAIN a :
       \/ a[i] = b[i]
       \/ \E l \in DOMAIN Upper :
            {a[i], b[i]} = {Upper[l], Lower[l]}

\* pairs of spellings of the labels, short names and custom_fields keys
CasePairs ==
  { << <<"V","I">>, <<"v","i">> >>, << <<"V","i">>, <<"V","I">> >>,
    << <<"I","A">>, <<"i","a">> >>, << <<"z">>, <<"Z">> >>,
    << <<"s","t">>, <<"S","t">> >>,
    << <<"E","M","A","I","L">>, <<"E","m","a","i","l">> >> }

\* C21: getCustomFieldApiName is case-insensitive: two strings that differ
\* only in letter case get the same answer in every resolver state, and the
\* label of a loaded field whose aliases no later record rewrote is found in
\* every spelling
C21_LookupIsCaseInsensitive ==
  /\ \A p \in CasePairs :
       getCustomFieldApiName(customFieldMappings, p[1])
         = getCustomFieldApiName(customFieldMappings, p[2])
  /\ \A i \in DOMAIN lastLoad :
       LoadedAt(lastLoad, i) /\ NotShadowed(lastLoad, i) =>
         \A p \in CasePairs :
           toLowerCase(p[1]) = toLowerCase(lastLoad[i].label) =>
             /\ getCustomFieldApiName(customFieldMappings, p[1])
                  = OwnApiName(lastLoad[i])
             /\ getCustomFieldApiName(customFieldMappings, p[2])
                  = OwnApiName(lastLoad[i])

\* a create_contact call has resolved the key 'Vi' to the API name of the
\* field that was loaded with the label 'VI'
C21_Witness ==
  \E c \in Calls :
    /\ calls[c].pc = "entity"
    /\ \A p \in CasePairs : p[1] # p[2] /\ DifferOnlyInCase(p[1], p[2])
    /\ calls[c].name = "create_contact"
    /\ calls[c].resolves > 0
    /\ \E i \in DOMAIN calls[c].args.custom_fields.entries :
         calls[c].args.custom_fields.entries[i].key = <<"V","i">>
    /\ \E i \in DOMAIN lastLoad :
         /\ LoadedAt(lastLoad, i)
         /\ lastLoad[i].label = <<"V","I">>
         /\ OwnApiName(lastLoad[i]) \in Keys(calls[c].req.values)
         /\ getCustomFieldApiName(customFieldMappings, <<"v","i">>)
              = OwnApiName(lastLoad[i])

\* a create or update call of index.ts or index_enhanced.ts that is suspended
\* at its entity request, the values map built
ValuesSent(c) ==
  /\ generation # "original"
  /\ calls[c].name \in CustomFieldTools
  /\ calls[c].pc = "entity"

\* the object whose entries the resolving loop of the handler iterates:
\* custom_fields in index.ts, the merge of the standard arguments and
\* custom_fields in index_enhanced.ts
Iterated(c) ==
  IF generation = "enhanced"
  THEN Spread(StandardArguments(calls[c]), CustomEntries(calls[c].args))
  ELSE CustomEntries(calls[c].args)

\* the key an input key is sent under: its API name if it resolves, else
\* itself
FinalKey(key) ==
  LET apiName == getCustomFieldApiName(customFieldMappings, key)
  IN IF Truthy(apiName) THEN apiName ELSE key

\* the positions of the object whose key is sent under finalKey
SentUnder(obj, finalKey) == {i \in DOMAIN obj : FinalKey(obj[i].key) = finalKey}

\* how many entries of the object have the key
Occurrences(obj, key) == Cardinality({i \in DOMAIN obj : obj[i].key = key})

\* the key of the input is an alias of a loaded field
Resolves(key) == Truthy(getCustomFieldApiName(customFieldMappings, key))

\* C22: when two different input keys resolve to the same composite API name
\* (and no further key of the input is that name itself, unresolved), the
\* value sent under that name is the value of the key that comes last in the
\* input's iteration order, and the name is in the values map once
C22_LastKeyOfOneApiNameWins ==
  \A c \in Calls :
    ValuesSent(c) =>
      LET input == Iterated(c)
      IN \A i, j \in DOMAIN input :
           (/\ i < j
            /\ input[i].key # input[j].key
            /\ Resolves(input[i].key)
            /\ Resolves(input[j].key)
            /\ FinalKey(input[i].key) = FinalKey(input[j].key)
            /\ \A k \in SentUnder(input, FinalKey(input[i].key)) :
                 Resolves(input[k].key))
             => LET apiName == FinalKey(input[i].key)
                    same == SentUnder(input, apiName)
                    last == CHOOSE k \in same : \A l \in same : l <= k
                IN /\ Get(calls[c].req.values, apiName) = input[last].value
                   /\ Occurrences(calls[c].req.values, apiName) = 1

\* create_contact of index.ts has built its values from custom_fields with
\* the label and the short name of one loaded field and two different values
C22_Witness ==
  \E c \in Calls :
    /\ ValuesSent(c)
    /\ generation = "index"
    /\ calls[c].name = "create_contact"
    /\ LET input == Iterated(c)
       IN /\ Len(input) = 2
          /\ input[1].key # input[2].key
          /\ input[1].value # input[2].value
          /\ Truthy(getCustomFieldApiName(customFieldMappings, input[1].key))
          /\ FinalKey(input[1].key) = FinalKey(input[2].key)
          /\ Get(calls[c].req.values, FinalKey(input[1].key)) = input[2].value

\* a call whose handler passed the response of its entity request to
\* formatResults and returned the text
Formatted(c) ==
  /\ generation # "original"
  /\ Kind(generation, calls[c].name) \in {"custom_get", "plain", "guarded"}
  /\ calls[c].name \notin {"get_tags", "get_option_values",
                           "list_option_groups", "get_reports"}
  /\ calls[c].pc = "done"
  /\ ~calls[c].entityFailed

\* the records the remote returned: the values list of a response that has
\* one; a response object without a values list is itself the one record if it
\* has an id, and holds no record otherwise
ReturnedRecords(result) ==
  CASE result.shape = "values" -> result.values
    [] result.shape = "novalues" /\ Truthy(result.id) ->
         <<Rec(result.id, <<>>)>>
    [] OTHER -> <<>>

\* C23: formatResults emits the 'Found 0 <entity>(s)' text exactly when the
\* remote returned no record, and otherwise one block per returned record, in
\* the order returned, under a header with the number of records, for a
\* response with a values list, with an empty values list and for a response
\* object without a values list
C23_OneBlockPerReturnedRecord ==
  \A c \in Calls :
    (/\ Formatted(c)
     /\ calls[c].result.shape \in {"values", "novalues"}
     /\ ~Truthy(calls[c].result.error))
      => LET records == ReturnedRecords(calls[c].result)
             type == FormatTypeOf(calls[c].name)
             text == calls[c].outcome.text
         IN /\ calls[c].outcome.kind = "text"
            /\ (records = <<>>) <=> (text = <<"Found 0 ", type, "(s):\n\n">>)
            /\ records # <<>> =>
                 text = <<"Found ">> \o NumStr(Len(records))
                          \o <<" ", type, "(s):\n\n">>
                          \o Flatten([i \in DOMAIN records |->
                               formatSingleEntity(generation, records[i], type)
                                 \o <<"\n">>])

\* the get operations that take no custom fields
NoCustomFieldTools ==
  { "get_events", "get_memberships", "get_groups", "get_tags",
    "get_relationships", "get_cases", "get_campaigns", "get_option_values",
    "list_option_groups", "get_reports", "system_info",
    "get_organizer_contacts" }

\* the call needs no custom field: get_contacts, get_activities or
\* get_contributions with include_custom_fields false, or an operation that
\* takes no custom fields
NeedsNoCustomFields(call) ==
  \/ /\ call.name \in {"get_contacts", "get_activities", "get_contributions"}
     /\ Get(call.args.std, K("include_custom_fields")) = Bool(FALSE)
  \/ call.name \in NoCustomFieldTools

\* C24: loading is lazy and only on need: a call that needs no custom field
\* sends no CustomField metadata query and leaves both maps unchanged, also
\* when the cache is still empty
C24_NoLoadWithoutNeed ==
  \A c \in Calls :
    (calls[c].pc # "idle" /\ NeedsNoCustomFields(calls[c])) =>
      /\ calls[c].queries = 0
      /\ calls[c].pc # "load"
      /\ ~calls[c].wrote

\* a get handler that builds its where list from the caller's arguments is
\* suspended at its entity request
FilterSent(c) ==
  /\ calls[c].pc = "entity"
  /\ calls[c].req.action = "get"
  /\ calls[c].name # "get_organizer_contacts"
  /\ WhereRows(generation, calls[c].name) # <<>>

\* the predicate of a filter argument for a supplied value
PredicateOf(row, v) ==
  [f |-> row.f, op |-> row.op, v |-> IF row.op = "LIKE" THEN Like(v) ELSE v]

\* C25: for each optional filter argument of a get operation the where list
\* sent holds the matching predicate if the caller supplied the argument,
\* whatever the value (0, false and the empty string included), and no
\* predicate on that field if the caller did not supply it (an argument that
\* has a default apart)
C25_WhereHonoursEverySuppliedFilter ==
  \A c \in Calls :
    FilterSent(c) =>
      LET rows == WhereRows(generation, calls[c].name)
          where == calls[c].req.where
      IN \A i \in DOMAIN rows :
           LET v == Get(calls[c].args.std, K(rows[i].arg))
           IN /\ v # Undef => PredicateOf(rows[i], v) \in Range(where)
              /\ (v = Undef /\ rows[i].dflt = Undef) =>
                   \A j \in DOMAIN where : where[j].f # rows[i].f

\* a list_custom_fields call that has returned its text
Listed(c) ==
  /\ calls[c].name = "list_custom_fields"
  /\ Kind(generation, calls[c].name) = "list_custom_fields"
  /\ calls[c].pc = "done"

\* the entity_type argument of the call, 'Contact' by default
EntityTypeOf(call) ==
  Dflt(Get(call.args.std, K("entity_type")), Str(<<"Contact">>)).s

\* how many entries the text has: each starts with 'Label: '
EntriesIn(text) == Cardinality({i \in DOMAIN text : text[i] = "Label: "})

\* C26: list_custom_fields returns 'No custom fields found for <entity_type>'
\* if and only if getCustomFieldsForEntity(entity_type) is empty; otherwise
\* the 'Custom fields for <entity_type>' header followed by one entry per
\* descriptor
C26_NoFieldsTextIffNoDescriptor ==
  \A c \in Calls :
    Listed(c) =>
      LET type == EntityTypeOf(calls[c])
          fields == getCustomFieldsForEntity(customFieldsCache, type)
          text == calls[c].outcome.text
      IN /\ (fields = <<>>) <=>
              (text = <<"No custom fields found for ">> \o type)
         /\ fields # <<>> =>
              /\ SubSeq(text, 1, 1 + Len(type)) = <<"Custom fields for ">> \o type
              /\ EntriesIn(text) = Len(fields)

\* the last load guard that finished had its query fail, or got a response
\* without a field record
LastLoadGotNothing ==
  \/ lastEnsure = "failed"
  \/ lastEnsure = "loaded" /\ lastLoad = <<>>

\* a step in which the server takes call c
Dispatch(c) == calls[c].pc = "idle" /\ calls'[c].pc # "idle"

C28_AliasValuesAreCacheKeys ==
  /\ \A k \in DOMAIN customFieldMappings :
       customFieldMappings[k] \in CacheKeys(customFieldsCache)
  /\ customFieldsCache = <<>> => DOMAIN customFieldMappings = {}

\* C29: in create_contact, update_contact, create_activity and
\* create_contribution no custom_fields entry is dropped: a key that does not
\* resolve is sent under itself, a key that resolves under its API name, in
\* both cases with the value of the entry (of the last entry, if several
\* custom_fields keys are sent under one key), and that value replaces the
\* value of a standard top-level argument with the same key
C29_NoCustomFieldsEntryIsDropped ==
  \A c \in Calls :
    ValuesSent(c) =>
      LET entries == CustomEntries(calls[c].args)
          values == calls[c].req.values
      IN \A i \in DOMAIN entries :
           LET key == FinalKey(entries[i].key)
               same == SentUnder(entries, key)
               last == CHOOSE k \in same : \A l \in same : l <= k
           IN /\ ~Truthy(getCustomFieldApiName(customFieldMappings,
                                               entries[i].key))
                   => key = entries[i].key
              /\ key \in Keys(values)
              /\ Occurrences(values, key) = 1
              /\ Get(values, key) = entries[last].value

\* the remote requests of the handler of a tool apart from the metadata
\* query: two for system_info, none for list_custom_fields, the placeholder
\* cases and an unknown name, one for every other
EntityRequestsOf(name) ==
  CASE Kind(generation, name) = "system_info" -> 2
    [] Kind(generation, name) \in {"list_custom_fields", "placeholder",
                                   "unknown"} -> 0
    [] OTHER -> 1

\* the call has sent a bounded number of requests and has not sent one again
\* after it failed, and it has an outcome, one text or one error, exactly
\* when it is over
BoundedRequests(call) ==
  /\ call.queries <= 1
  /\ call.requests <= EntityRequestsOf(call.name)
  /\ call.metaFailed => call.queries = 1 /\ call.pc # "load"
  /\ call.entityFailed => call.pc = "done"
  /\ call.pc = "done" <=> call.outcome.kind \in {"text", "error"}
  /\ call.pc # "done" => call.outcome = NoOutcome

\* the call in progress is suspended at a remote request
InFlight == calls[1].pc \in {"load", "entity", "sys1", "sys2"}

\* the call has ended with its outcome
Ended == calls[1].pc = "done" /\ calls[1].outcome.kind \in {"text", "error"}

\* C30: every tool call terminates with exactly one outcome, a text result or
\* an error, provided every outbound remote request terminates; a tool call
\* sends at most one CustomField metadata query plus the fixed number of
\* entity requests of its handler and retries no failed request; an outcome,
\* once there, is not replaced
C30_EveryCallEndsWithOneOutcome ==
  /\ [](\A c \in Calls : BoundedRequests(calls[c]))
  /\ [][\A c \in Calls :
          calls[c].pc = "done" => calls'[c] \in {calls[c], IdleCall}]_vars
  /\ InFlight ~> Ended

\* system_info has ended with a text after its second request failed: two
\* requests sent, none again
C30_Witness ==
  /\ calls[1].pc = "done"
  /\ calls[1].name = "system_info"
  /\ calls[1].requests = 2
  /\ calls[1].entityFailed
  /\ calls[1].outcome.kind = "text"

====
